---- MODULE Spec2Model ----
(***************************************************************************)
(* A model of the AI Architect signal-processing pipeline:                 *)
(*   ClaudeClient (retrying model client), SignalRanker, NoveltyDetector,  *)
(*   Analyzer, Synthesizer and the AIArchitect orchestrator.               *)
(* Each component has its own specification over the shared variables:     *)
(*   SpecClient  - one ClaudeClient.complete() call                        *)
(*   SpecRank    - SignalRanker.rank_all / apply_scores                    *)
(*   SpecAnalyze - Analyzer.analyze_batch                                  *)
(*   SpecSynth   - Synthesizer.synthesize_daily/weekly/monthly             *)
(*   SpecNovelty - NoveltyDetector.filter_novel                            *)
(*   SpecScores  - the ranker and the synthesizer, each on its own         *)
(*   SpecJson    - ClaudeClient.complete / complete_json on a content      *)
(*   SpecNoArgs  - the ranker and the detector built without arguments     *)
(*   SpecStores  - the analyzer and the synthesizer, each on its own       *)
(*   SpecCollect - AIArchitect._collect                                    *)
(*   Spec        - AIArchitect.run()                                       *)
(***************************************************************************)
EXTENDS Integers, Sequences, FiniteSets, TLC

VARIABLES
    \* ---- ClaudeClient.complete ----
    c_pc,        \* "idle" | "attempt" | "backoff" | "returned" | "raised"
    c_attempt,   \* tenacity attempt_number of the running _execute call
    c_calls,     \* number of self._client.messages.create invocations
    c_history,   \* the backend outcome of each invocation, in order
    c_slept,     \* the waits slept between attempts, in order
    c_result,    \* what complete() returned or raised
    c_content,   \* complete: the text _execute returned, a tuple of tokens
    c_expect_json, \* complete: the expect_json argument
    c_response,  \* complete: the ClaudeResponse it returns
    c_json,      \* complete_json: what it returned or raised
    \* ---- the pipeline ----
    entry,       \* the operation that was called: "client" | "rank_all" | "analyze_batch" | "synthesize" | "run"
    pc,          \* position in the called operation
    config,      \* config.thresholds of the loaded Config
    item,        \* the CollectedItem objects, by identity
    exc,         \* the exception in flight ("none" when there is none)
    ranker,      \* the SignalRanker's fields
    r_in,        \* rank_all: the items argument
    r_i,         \* rank_all: the loop offset i
    r_log,       \* rank_all: per batch, the slice and what the client did
    r_sleeps,    \* rank_all: the delays slept, in order
    all_ranked,  \* rank_all: all_ranked
    ranked,      \* rank_all's return value
    filtered_by_signal,  \* apply_scores' return value
    analyzer,    \* the Analyzer's fields
    a_in,        \* analyze_batch: the items argument
    a_i,         \* analyze_batch: the loop index i
    a_log,       \* analyze_batch: per item, what the client and the store did
    a_sleeps,    \* analyze_batch: the delays slept, in order
    results,     \* analyze_batch: results, the (item, result) pairs
    analysis_store,  \* the documents added to the "analysis" collection
    synthesizer, \* the Synthesizer's fields
    mode,        \* the mode: "daily" | "weekly" | "monthly"
    s_in,        \* synthesize_*: the items argument, (item, analysis) pairs
    s_log,       \* synthesize_*: what the client and the store did
    synthesis,   \* synthesize_*'s return value
    synthesis_store, \* the documents added to the "synthesis" collection
    detector,    \* the NoveltyDetector's fields
    n_in,        \* filter_novel: the items argument
    min_novelty, \* filter_novel: the min_novelty argument
    n_i,         \* filter_novel: how many items the loop has checked
    n_log,       \* filter_novel: per item, the lookup's outcome and the score
    novel_items, \* filter_novel: the list it builds and returns
    collectors_config, \* config.collectors: collector name -> its configuration
    col_i,       \* _collect: how many collectors the loop has visited
    col_log,     \* _collect: the collectors invoked and what each did, in order
    all_items,   \* _collect: the list it builds and returns
    metrics,     \* the CycleMetrics
    notifier,    \* the Notifier's fields
    notifications, \* the notifications handed to the notifier, with their delivery
    output_files,  \* the files the markdown generator has written
    phases,      \* the phases run() has started, in order
    returned     \* run()'s return value

json_vars == <<c_content, c_expect_json, c_response, c_json>>

client_vars == <<c_pc, c_attempt, c_calls, c_history, c_slept, c_result, json_vars>>

rank_vars == <<ranker, r_in, r_i, r_log, r_sleeps, all_ranked, ranked, filtered_by_signal>>

analyze_vars == <<analyzer, a_in, a_i, a_log, a_sleeps, results, analysis_store>>

synth_vars == <<synthesizer, mode, s_in, s_log, synthesis, synthesis_store>>

novelty_vars == <<detector, n_in, min_novelty, n_i, n_log, novel_items>>

run_vars == <<collectors_config, col_i, col_log, all_items, metrics, notifier, notifications,
              output_files, phases, returned>>

pipe_vars == <<entry, pc, config, item, exc, rank_vars, novelty_vars, analyze_vars,
               synth_vars, run_vars>>

vars == <<client_vars, pipe_vars>>

(***************************************************************************)
(* Generic helpers                                                         *)
(***************************************************************************)
Min(a, b) == IF a <= b THEN a ELSE b

Max(a, b) == IF a >= b THEN a ELSE b

Last(s) == s[Len(s)]

\* s[:n] of Python for a sequence s and n >= 0
Take(s, n) == SubSeq(s, 1, Min(n, Len(s)))

\* sub in s for Python strings, strings being tuples of characters
Contains(s, sub) ==
    \E i \in 1..(Len(s) - Len(sub) + 1) : SubSeq(s, i, i + Len(sub) - 1) = sub

\* str.lower() on the characters used by the error texts below
LowerChar(ch) ==
    CASE ch = "R" -> "r"
      [] ch = "O" -> "o"
      [] ch = "A" -> "a"
      [] OTHER -> ch

Lower(s) == [i \in 1..Len(s) |-> LowerChar(s[i])]

(***************************************************************************)
(* ClaudeClient                                                            *)
(***************************************************************************)
\* stop_after_attempt(3)
MaxAttempts == 3

\* wait_exponential(multiplier=1, min=4, max=60)
WaitMultiplier == 1

WaitMin == 4

WaitMax == 60

\* str(e)[:500]
ErrorMsgLen == 500

\* Error texts an APIError of the backend may carry.
TxtRateLimit == <<"R","a","t","e"," ","l","i","m","i","t">>

TxtOverloaded == <<"O","v","e","r","l","o","a","d","e","d">>

TxtBadRequest == <<"b","a","d"," ","r","e","q","u","e","s","t">>

TxtAuth == <<"A","u","t","h"," ","f","a","i","l","e","d">>

ErrorTexts == {TxtRateLimit, TxtOverloaded, TxtBadRequest, TxtAuth}

\* Content blocks of a backend response: only blocks with a text attribute count.
Block(has_text, text) == [has_text |-> has_text, text |-> text]

BackendResponses ==
    { <<>>,
      <<Block(TRUE, <<"x">>)>>,
      <<Block(FALSE, <<"t">>), Block(TRUE, <<"x">>), Block(TRUE, <<"y">>)>> }

\* What one self._client.messages.create(...) invocation can do.
BackendOutcomes ==
    [kind : {"response"}, blocks : BackendResponses]
    \cup [kind : {"APITimeoutError"}]
    \cup [kind : {"APIError"}, text : ErrorTexts]
    \cup [kind : {"OtherError"}]

RECURSIVE ExtractContent(_)
\* content = "" ; for block in response.content: if hasattr(block, "text"): content += block.text
ExtractContent(blocks) ==
    IF blocks = <<>> THEN <<>>
    ELSE (IF Head(blocks).has_text THEN Head(blocks).text ELSE <<>>)
         \o ExtractContent(Tail(blocks))

\* "rate" in error_msg.lower() or "overload" in error_msg.lower()
IsRateLimited(error_msg) ==
    \/ Contains(Lower(error_msg), <<"r","a","t","e">>)
    \/ Contains(Lower(error_msg), <<"o","v","e","r","l","o","a","d">>)

\* The body of _execute for one backend outcome: what it returns or raises.
ExecuteBody(o) ==
    CASE o.kind = "response" ->
           [status |-> "returned", content |-> ExtractContent(o.blocks)]
      [] o.kind = "APITimeoutError" ->
           [status |-> "raised", type |-> "ClaudeTimeoutError"]
      [] o.kind = "APIError" ->
           LET error_msg == Take(o.text, ErrorMsgLen) IN
           IF IsRateLimited(error_msg)
           THEN [status |-> "raised", type |-> "ClaudeAPIError",
                 prefix |-> "Rate limited", msg |-> error_msg]
           ELSE [status |-> "raised", type |-> "ClaudeAPIError",
                 prefix |-> "API error", msg |-> error_msg]
      [] OTHER ->
           [status |-> "raised", type |-> "OtherError"]

\* A retry predicate that also retries the timeout error.
ShouldRetry_mut(r) == r.status = "raised" /\ r.type \in {"ClaudeAPIError", "ClaudeTimeoutError"}

\* retry=retry_if_exception_type(ClaudeAPIError)
ShouldRetry(r) == r.status = "raised" /\ r.type = "ClaudeAPIError"

\* A stop condition that is off by one: a fourth attempt is made.
ShouldStop_mut(attempt_number) == attempt_number > MaxAttempts

\* stop=stop_after_attempt(3)
ShouldStop(attempt_number) == attempt_number >= MaxAttempts

RECURSIVE Pow2(_)
Pow2(n) == IF n <= 0 THEN 1 ELSE 2 * Pow2(n - 1)

\* tenacity wait_exponential: max(min, min(multiplier * 2 ** (attempt - 1), max))
WaitExponential(attempt_number) ==
    Max(WaitMin, Min(WaitMultiplier * Pow2(attempt_number - 1), WaitMax))

ExecuteIdle ==
    /\ c_pc = "idle"
    /\ c_attempt = 0
    /\ c_calls = 0
    /\ c_history = <<>>
    /\ c_slept = <<>>
    /\ c_result = [status |-> "none"]

ClientIdle ==
    /\ ExecuteIdle
    /\ c_content = <<>>
    /\ c_expect_json = FALSE
    /\ c_response = <<>>
    /\ c_json = [status |-> "none"]

\* complete() is called and enters the retrying _execute.
Complete ==
    /\ c_pc = "idle"
    /\ c_pc' = "attempt"
    /\ c_attempt' = 1
    /\ UNCHANGED <<c_calls, c_history, c_slept, c_result, json_vars, pipe_vars>>

\* One attempt of _execute: the backend is invoked once and the retry policy decides.
ExecuteAttempt ==
    /\ c_pc = "attempt"
    /\ \E o \in BackendOutcomes :
         LET r == ExecuteBody(o) IN
         /\ c_calls' = c_calls + 1
         /\ c_history' = Append(c_history, o)
         /\ IF r.status = "returned"
            THEN /\ c_pc' = "returned"
                 /\ c_result' = r
            ELSE IF ShouldRetry(r) /\ ~ShouldStop(c_attempt)
                 THEN /\ c_pc' = "backoff"
                      /\ c_result' = c_result
                 ELSE /\ c_pc' = "raised"
                      /\ c_result' = r
    /\ UNCHANGED <<c_attempt, c_slept, json_vars, pipe_vars>>

\* The wait between two attempts.
Backoff ==
    /\ c_pc = "backoff"
    /\ c_slept' = Append(c_slept, WaitExponential(c_attempt))
    /\ c_attempt' = c_attempt + 1
    /\ c_pc' = "attempt"
    /\ UNCHANGED <<c_calls, c_history, c_result, json_vars, pipe_vars>>

(***************************************************************************)
(* Values: Python's None, and JSON values as the model returns them        *)
(***************************************************************************)
\* An optional value: None is the empty tuple, a set value x is <<x>>.
None == <<>>

Some(x) == <<x>>

JNull == [t |-> "null"]

JInt(n) == [t |-> "int", i |-> n]

\* A float with one decimal, held in tenths: JFloat(75) is 7.5
JFloat(n) == [t |-> "float", tenths |-> n]

JStr(x) == [t |-> "str", s |-> x]

JList(xs) == [t |-> "list", xs |-> xs]

\* A JSON object: d is a function from its keys to JSON values
JDict(d) == [t |-> "dict", d |-> d]

EmptyDict == JDict(<<>>)

\* bool(j) of Python
Truthy(j) ==
    CASE j.t = "null" -> FALSE
      [] j.t = "int" -> j.i # 0
      [] j.t = "float" -> j.tenths # 0
      [] j.t = "str" -> j.s # ""
      [] j.t = "list" -> j.xs # <<>>
      [] j.t = "dict" -> DOMAIN j.d # {}
      [] j.t = "text" -> j.chars # <<>>
      [] OTHER -> TRUE

\* j.get(key, default) for a JSON object j
DictGet(j, key, default) == IF key \in DOMAIN j.d THEN j.d[key] ELSE default

\* int("...") on the strings the model may send: the decimal ones parse.
IntOfStr(x) ==
    CASE x = "7" -> [ok |-> TRUE, v |-> 7]
      [] x = "15" -> [ok |-> TRUE, v |-> 15]
      [] x = "-3" -> [ok |-> TRUE, v |-> -3]
      [] OTHER -> [ok |-> FALSE, type |-> "ValueError"]

\* int(j) of Python: truncation toward zero for a float, parsing for a
\* string, TypeError for None, a list or an object.
IntOf(j) ==
    CASE j.t = "int" -> [ok |-> TRUE, v |-> j.i]
      [] j.t = "float" ->
           [ok |-> TRUE,
            v |-> IF j.tenths >= 0 THEN j.tenths \div 10 ELSE -((-j.tenths) \div 10)]
      [] j.t = "str" -> IntOfStr(j.s)
      [] OTHER -> [ok |-> FALSE, type |-> "TypeError"]

(***************************************************************************)
(* Exceptions and the model client as the components see it               *)
(***************************************************************************)
\* ClaudeClientError and its subclasses
ClaudeClientErrors == {"ClaudeClientError", "ClaudeTimeoutError", "ClaudeAPIError", "ClaudeParseError"}

Returned(v) == [status |-> "returned", value |-> v]

Raised(type) == [status |-> "raised", type |-> type]

\* What client.complete(...) does for one call: raise, or return a response.
ClientRaises(type) == [kind |-> "raise", type |-> type]

ClientReturns(json_data) == [kind |-> "response", json_data |-> json_data]

(***************************************************************************)
(* ClaudeClient: JSON out of the content                                   *)
(* The content is a tuple of tokens: "obj" is the text of a non-empty JSON *)
(* object, "empty" the text {}, "prose" words that are no JSON, "fence"    *)
(* three backticks, "fence_json" three backticks followed by json, "nl" a  *)
(* newline. "tag" and "cut" are the pieces slicing leaves of a token.      *)
(***************************************************************************)
ContentTokens == {"obj", "empty", "prose", "fence", "fence_json", "nl"}

\* The value json.loads gives the text of a token
ObjValue == JDict([key |-> JStr("value")])

TokenValue(tok) == IF tok = "obj" THEN ObjValue ELSE EmptyDict

\* str.strip() on tokens: the newlines at both ends go
Strip(toks) ==
    LET kept == {i \in 1..Len(toks) : toks[i] # "nl"} IN
    IF kept = {} THEN <<>>
    ELSE SubSeq(toks, CHOOSE i \in kept : \A j \in kept : i <= j,
                      CHOOSE i \in kept : \A j \in kept : i >= j)

\* json.loads(text.strip()): the value, or JSONDecodeError
JsonLoads(toks) ==
    LET s == Strip(toks) IN
    IF Len(s) = 1 /\ s[1] \in {"obj", "empty"} THEN Returned(TokenValue(s[1]))
    ELSE Raised("JSONDecodeError")

IsFence(tok) == tok \in {"fence", "fence_json"}

\* text[:-1]: the last character goes, which a newline is
DropLastChar(toks) ==
    IF toks = <<>> THEN <<>>
    ELSE IF Last(toks) = "nl" THEN SubSeq(toks, 1, Len(toks) - 1)
    ELSE SubSeq(toks, 1, Len(toks) - 1) \o <<"cut">>

\* content[start:end] with end = content.find("```", start), start being
\* the position before token s, after the characters of prefix; find's -1
\* for no further fence makes the slice content[start:-1]
SliceToFence(toks, s, prefix) ==
    LET ends == {j \in s..Len(toks) : IsFence(toks[j])} IN
    IF ends # {}
    THEN prefix \o SubSeq(toks, s, (CHOOSE j \in ends : \A k \in ends : j <= k) - 1)
    ELSE DropLastChar(prefix \o SubSeq(toks, s, Len(toks)))

\* The block after the first "```json"
JsonFenceBody(toks) ==
    LET at == {i \in 1..Len(toks) : toks[i] = "fence_json"}
        first == CHOOSE i \in at : \A j \in at : i <= j
    IN SliceToFence(toks, first + 1, <<>>)

\* The block after the first "```": a newline further on ends the language
\* identifier and the block starts after it
PlainFenceBody(toks) ==
    LET at == {i \in 1..Len(toks) : IsFence(toks[i])}
        first == CHOOSE i \in at : \A j \in at : i <= j
        rest == IF toks[first] = "fence_json" THEN <<"tag">> ELSE <<>>
        nls == {k \in (first + 1)..Len(toks) : toks[k] = "nl"}
        newline_pos == CHOOSE k \in nls : \A j \in nls : k <= j
    IN  IF nls # {} /\ (rest # <<>> \/ newline_pos > first + 1)
        THEN SliceToFence(toks, newline_pos + 1, <<>>)
        ELSE SliceToFence(toks, first + 1, rest)

\* _parse_json_from_content(content): the value, or None (JNull)
ParseJsonFromContent(toks) ==
    LET direct == JsonLoads(toks) IN
    IF direct.status = "returned" THEN direct.value
    ELSE
      LET tagged == IF \E i \in 1..Len(toks) : toks[i] = "fence_json"
                    THEN JsonLoads(JsonFenceBody(toks)) ELSE Raised("JSONDecodeError")
      IN
      IF tagged.status = "returned" THEN tagged.value
      ELSE
        LET plain == IF \E i \in 1..Len(toks) : IsFence(toks[i])
                     THEN JsonLoads(PlainFenceBody(toks)) ELSE Raised("JSONDecodeError")
        IN IF plain.status = "returned" THEN plain.value ELSE JNull

ClaudeResponse(text, json_data) == [content |-> text, json_data |-> json_data]

\* complete(...) once _execute has returned the content
CompleteResponse(text, expect) ==
    IF expect /\ text # <<>>
    THEN LET json_data == ParseJsonFromContent(text) IN
         IF Truthy(json_data) THEN ClaudeResponse(text, json_data)
         ELSE ClaudeResponse(text, JNull)
    ELSE ClaudeResponse(text, JNull)

\* complete(prompt, expect_json=...) returns its response
CompleteReturn ==
    /\ entry = "complete"
    /\ pc = "complete"
    /\ c_response' = Some(CompleteResponse(c_content, c_expect_json))
    /\ pc' = "done"
    /\ UNCHANGED <<c_pc, c_attempt, c_calls, c_history, c_slept, c_result, c_content,
                   c_expect_json, c_json>>
    /\ UNCHANGED <<entry, config, item, exc, rank_vars, novelty_vars, analyze_vars,
                   synth_vars, run_vars>>

\* complete_json(prompt): complete(expect_json=True), then the check
CompleteJson ==
    /\ entry = "complete_json"
    /\ pc = "complete"
    /\ LET r == CompleteResponse(c_content, TRUE) IN
       /\ c_response' = Some(r)
       /\ IF r.json_data = JNull
          THEN /\ c_json' = Raised("ClaudeParseError")
               /\ exc' = "ClaudeParseError"
               /\ pc' = "raised"
          ELSE /\ c_json' = Returned(r.json_data)
               /\ exc' = exc
               /\ pc' = "done"
    /\ UNCHANGED <<c_pc, c_attempt, c_calls, c_history, c_slept, c_result, c_content,
                   c_expect_json>>
    /\ UNCHANGED <<entry, config, item, rank_vars, novelty_vars, analyze_vars,
                   synth_vars, run_vars>>

(***************************************************************************)
(* Config and CollectedItem                                                *)
(***************************************************************************)
\* ThresholdsConfig defaults
DefaultSignalScoreMin == 4

DefaultBatchSize == 10

DefaultRequestDelay == 5

DefaultBatchDelay == 3

\* novelty_score_min default 0.3, in units of 1/200 (see the Novelty Detector)
DefaultNoveltyScoreMin == 60

DefaultThresholds ==
    [signal_score_min |-> DefaultSignalScoreMin,
     novelty_score_min |-> DefaultNoveltyScoreMin,
     batch_size |-> DefaultBatchSize,
     request_delay |-> DefaultRequestDelay,
     batch_delay |-> DefaultBatchDelay]

\* A CollectedItem as a collector creates it: the processing annotations unset.
NewItem(source_type, has_priority_label, title, content) ==
    [source_type |-> source_type,
     has_priority_label |-> has_priority_label,
     title |-> title,
     content |-> content,
     signal_score |-> None,
     impact |-> None,
     maturity |-> None,
     novelty_score |-> None]

(***************************************************************************)
(* SignalRanker                                                            *)
(***************************************************************************)
IMPACT_DIMENSIONS == {"tooling", "architecture", "research", "production", "ecosystem"}

MATURITY_LEVELS == {"experimental", "early", "growing", "stable", "legacy"}

\* SignalRanker.__init__ defaults
RankerDefaultBatchSize == 10

RankerDefaultSignalThreshold == 4

\* The default of a missing signal_score, and the clamp range
DefaultSignalScore == 5

MinScore == 1

MaxScore == 10

\* _fallback_rank's scores
FallbackBaseScore == 5

FallbackCoreSourceScore == 6

FallbackPriorityScore == 7

FallbackReasoning == JStr("Fallback ranking (Claude unavailable)")

\* a or b of Python for a number a: b when a is None or 0
OrElse(a, b) == IF a # None /\ a[1] # 0 THEN a[1] ELSE b

\* SignalRanker.__init__(batch_size, signal_threshold, batch_delay)
SignalRankerInit(batch_size, signal_threshold, batch_delay, thresholds) ==
    [batch_size |-> OrElse(batch_size, thresholds.batch_size),
     signal_threshold |-> OrElse(signal_threshold, thresholds.signal_score_min),
     batch_delay |-> IF batch_delay # None THEN batch_delay[1] ELSE thresholds.batch_delay]

RankedItem(id, signal_score, impact, maturity, reasoning) ==
    [item |-> id, signal_score |-> signal_score, impact |-> impact,
     maturity |-> maturity, reasoning |-> reasoning]

\* The score _fallback_rank gives one item.
FallbackScore(it) ==
    IF it.source_type \in {"github_signals", "docs"} THEN FallbackCoreSourceScore
    ELSE IF it.source_type = "github_emerging" THEN FallbackPriorityScore
    ELSE IF it.has_priority_label THEN FallbackPriorityScore
    ELSE FallbackBaseScore

\* _fallback_rank(items): one RankedItem per item, in order.
FallbackRank(items) ==
    [k \in 1..Len(items) |->
        RankedItem(items[k], FallbackScore(item[items[k]]), "ecosystem", "growing",
                   FallbackReasoning)]

\* A clamp that forgets the upper end
ClampScore_mut(v) == Max(MinScore, v)

\* max(1, min(10, v))
ClampScore(v) == Max(MinScore, Min(MaxScore, v))

\* The rankings _parse_rankings iterates over: a wrapping object is unwrapped
\* by its "rankings" key, else its "items" key, else taken as the one entry.
UnwrapRankings(data) ==
    IF data.t = "dict"
    THEN DictGet(data, "rankings", DictGet(data, "items", JList(<<data>>)))
    ELSE data

\* enumerate(rankings_data): the elements, or the error of iterating it.
\* Iterating an object or a string yields its keys or characters (strings).
IterRankings(data) ==
    CASE data.t = "list" -> [ok |-> TRUE, xs |-> data.xs]
      [] data.t = "dict" ->
           [ok |-> TRUE,
            xs |-> IF DOMAIN data.d = {} THEN <<>> ELSE <<JStr("key")>>]
      [] data.t = "str" ->
           [ok |-> TRUE,
            xs |-> IF data.s = "" THEN <<>> ELSE <<JStr("char")>>]
      [] OTHER -> [ok |-> FALSE, type |-> "TypeError"]

\* r.get("index", i) for the entry at 0-based position i
IndexKey(r, i) == DictGet(r, "index", JInt(i))

\* Whether a dict key equals the integer i (0 == 0.0 in Python)
KeyIs(k, i) ==
    \/ (k.t = "int" /\ k.i = i)
    \/ (k.t = "float" /\ k.tenths = 10 * i)

\* A lookup by position in the response, whatever index the entry states
RankingFor_mut(xs, i) == IF i + 1 <= Len(xs) THEN xs[i + 1] ELSE EmptyDict

\* rankings_by_index.get(i, {}): the last entry stored under key i
RankingFor(xs, i) ==
    LET hits == {p \in 1..Len(xs) : KeyIs(IndexKey(xs[p], p - 1), i)} IN
    IF hits = {} THEN EmptyDict
    ELSE xs[CHOOSE p \in hits : \A q \in hits : q <= p]

\* A validation that lets any string through
ImpactOf_mut(impact) == IF impact.t = "str" THEN impact.s ELSE "ecosystem"

\* if impact not in IMPACT_DIMENSIONS: impact = "ecosystem"
ImpactOf(impact) ==
    IF impact.t = "str" /\ impact.s \in IMPACT_DIMENSIONS THEN impact.s ELSE "ecosystem"

\* if maturity not in MATURITY_LEVELS: maturity = "growing"
MaturityOf(maturity) ==
    IF maturity.t = "str" /\ maturity.s \in MATURITY_LEVELS THEN maturity.s ELSE "growing"

\* The RankedItem of one item from its ranking entry, or the error of int().
ParseOneRanking(id, ranking) ==
    LET raw == DictGet(ranking, "signal_score", JInt(DefaultSignalScore))
        impact == DictGet(ranking, "impact", JStr("ecosystem"))
        maturity == DictGet(ranking, "maturity", JStr("growing"))
        reasoning == DictGet(ranking, "reasoning", JNull)
        n == IntOf(raw)
    IN  IF ~n.ok THEN Raised(n.type)
        ELSE Returned(RankedItem(
                id,
                ClampScore(n.v),
                ImpactOf(impact),
                MaturityOf(maturity),
                reasoning))

\* _parse_rankings(items, rankings_data)
ParseRankings(items, rankings_data) ==
    LET it == IterRankings(UnwrapRankings(rankings_data)) IN
    IF ~it.ok THEN Raised(it.type)
    ELSE
      LET xs == it.xs
          \* building rankings_by_index: r.get on a non-object, an unhashable index
          bad == {p \in 1..Len(xs) :
                    \/ xs[p].t # "dict"
                    \/ IndexKey(xs[p], p - 1).t \in {"list", "dict"}}
          firstBad == CHOOSE p \in bad : \A q \in bad : p <= q
      IN
      IF bad # {}
      THEN Raised(IF xs[firstBad].t # "dict" THEN "AttributeError" ELSE "TypeError")
      ELSE
        LET one == [k \in 1..Len(items) |->
                       ParseOneRanking(items[k], RankingFor(xs, k - 1))]
            failed == {k \in 1..Len(items) : one[k].status = "raised"}
        IN
        IF failed # {}
        THEN Raised(one[CHOOSE k \in failed : \A q \in failed : k <= q].type)
        ELSE Returned([k \in 1..Len(items) |-> one[k].value])

\* The try block of rank_batch: the client call and the parse.
RankBatchBody(items, beh) ==
    IF beh.kind = "raise" THEN Raised(beh.type)
    ELSE IF ~Truthy(beh.json_data) THEN Returned(FallbackRank(items))
    ELSE ParseRankings(items, beh.json_data)

\* rank_batch's handler: except ClaudeClientError
RankCatches(type) == type \in ClaudeClientErrors

\* rank_batch(items) when the client behaves as beh
RankBatch(items, beh) ==
    IF items = <<>> THEN Returned(<<>>)
    ELSE LET b == RankBatchBody(items, beh) IN
         IF b.status = "raised" /\ RankCatches(b.type)
         THEN Returned(FallbackRank(items))
         ELSE b

\* A test that lets only scores above the threshold through
PassesThreshold_mut(r, threshold) == r.signal_score > threshold

\* rank_all's test: r.signal_score >= self.signal_threshold
PassesThreshold(r, threshold) == r.signal_score >= threshold

RECURSIVE FilterByThreshold(_, _)
\* filtered = [r for r in all_ranked if r.signal_score >= self.signal_threshold]
FilterByThreshold(rs, threshold) ==
    IF rs = <<>> THEN <<>>
    ELSE (IF PassesThreshold(Head(rs), threshold) THEN <<Head(rs)>> ELSE <<>>)
         \o FilterByThreshold(Tail(rs), threshold)

RECURSIVE ApplyScoresTo(_, _)
\* apply_scores' loop: the three fields written onto each ranked item, in order
ApplyScoresTo(h, rs) ==
    IF rs = <<>> THEN h
    ELSE ApplyScoresTo(
            [h EXCEPT ![Head(rs).item] =
                [@ EXCEPT !.signal_score = Some(Head(rs).signal_score),
                          !.impact = Some(Head(rs).impact),
                          !.maturity = Some(Head(rs).maturity)]],
            Tail(rs))

\* Where a raised exception takes control: run()'s except block, or the caller.
RaisePc == IF entry = "run" THEN "except" ELSE "raised"

\* ---- what the model client may do for one rank_batch call ----
E(rec) == JDict(rec)

\* two well-formed entries, the second below the default threshold
RankJsonValid ==
    JList(<< E([index |-> JInt(0), signal_score |-> JInt(8), impact |-> JStr("tooling"),
                maturity |-> JStr("stable"), reasoning |-> JStr("why")]),
             E([index |-> JInt(1), signal_score |-> JInt(3), impact |-> JStr("research"),
                maturity |-> JStr("early")]) >>)

\* scores out of range, categories outside the fixed sets
RankJsonOutOfRange ==
    JList(<< E([index |-> JInt(0), signal_score |-> JInt(15), impact |-> JStr("bogus"),
                maturity |-> JInt(1)]),
             E([index |-> JInt(1), signal_score |-> JInt(-3)]) >>)

\* an entry without index (its position counts), an index beyond the batch
RankJsonNoIndex ==
    JList(<< E([signal_score |-> JInt(9)]),
             E([index |-> JInt(7), signal_score |-> JInt(2)]) >>)

\* two entries for the same index
RankJsonDuplicate ==
    JList(<< E([index |-> JInt(0), signal_score |-> JInt(2)]),
             E([index |-> JInt(0), signal_score |-> JInt(9)]) >>)

\* wrapped in an object, a numeric string as score
RankJsonWrapped ==
    JDict([rankings |-> JList(<< E([index |-> JInt(1), signal_score |-> JStr("7")]) >>)])

\* wrapped under "items", a float score, a float index
RankJsonItems ==
    JDict([items |-> JList(<< E([index |-> JFloat(10), signal_score |-> JFloat(75)]) >>)])

\* a single entry, not in a list
RankJsonSingle == E([index |-> JInt(0), signal_score |-> JInt(2)])

\* a non-numeric signal_score
RankJsonNonNumeric ==
    JList(<< E([index |-> JInt(0), signal_score |-> JStr("high")]) >>)

\* a null signal_score
RankJsonNullScore ==
    JList(<< E([index |-> JInt(0), signal_score |-> JNull]) >>)

\* a list of numbers, and a bare number
RankJsonNotObjects == JList(<< JInt(5) >>)

RankJsonScalar == JInt(5)

RankJsons ==
    {RankJsonValid, RankJsonOutOfRange, RankJsonNoIndex, RankJsonDuplicate,
     RankJsonWrapped, RankJsonItems, RankJsonSingle, RankJsonNonNumeric,
     RankJsonNullScore, RankJsonNotObjects, RankJsonScalar}

ClientErrorBehaviours ==
    {ClientRaises("ClaudeTimeoutError"), ClientRaises("ClaudeAPIError"),
     ClientRaises("ClaudeParseError")}

NoJsonBehaviours == {ClientReturns(JNull), ClientReturns(JList(<<>>))}

\* Every behaviour of an injected client, for the ranker on its own
RankBehaviours ==
    ClientErrorBehaviours \cup {ClientRaises("RuntimeError")}
    \cup NoJsonBehaviours \cup {ClientReturns(j) : j \in RankJsons}

\* The behaviours drawn inside a whole run
RunRankBehaviours ==
    {ClientRaises("ClaudeTimeoutError"), ClientReturns(RankJsonValid),
     ClientReturns(RankJsonNonNumeric)}

\* A loop that sleeps after every batch, the last one too
SleepsAfterBatch_mut(batch_delay, i, batch_size, n) == batch_delay > 0

\* rank_all's test: self.batch_delay > 0 and i + self.batch_size < len(items)
SleepsAfterBatch(batch_delay, i, batch_size, n) == batch_delay > 0 /\ i + batch_size < n

\* ---- rank_all, one batch per step ----
\* One iteration of rank_all's loop: the slice, rank_batch on it, the delay.
RankBatchStep ==
    /\ pc = "rank_all"
    /\ r_i < Len(r_in)
    /\ \E beh \in (IF entry = "run" THEN RunRankBehaviours ELSE RankBehaviours) :
         LET batch == SubSeq(r_in, r_i + 1, Min(r_i + ranker.batch_size, Len(r_in)))
             res == RankBatch(batch, beh)
         IN
         /\ r_log' = Append(r_log, [batch |-> batch, beh |-> beh])
         /\ IF res.status = "raised"
            THEN /\ exc' = res.type
                 /\ pc' = RaisePc
                 /\ UNCHANGED <<all_ranked, r_sleeps, r_i>>
            ELSE /\ all_ranked' = all_ranked \o res.value
                 /\ r_sleeps' = IF SleepsAfterBatch(ranker.batch_delay, r_i,
                                                     ranker.batch_size, Len(r_in))
                                 THEN Append(r_sleeps, ranker.batch_delay)
                                 ELSE r_sleeps
                 /\ r_i' = r_i + ranker.batch_size
                 /\ UNCHANGED <<pc, exc>>
    /\ UNCHANGED <<entry, config, item, ranker, r_in, ranked, filtered_by_signal>>
    /\ UNCHANGED <<client_vars, novelty_vars, analyze_vars, synth_vars, run_vars>>

\* The items of the ranked entries, last to first
ItemsOf_mut(rs) == [k \in 1..Len(rs) |-> rs[Len(rs) + 1 - k].item]

\* apply_scores' return value: [r.item for r in ranked_items]
ItemsOf(rs) == [k \in 1..Len(rs) |-> rs[k].item]

\* The end of rank_all: the threshold filter and the return.
RankAllReturn ==
    /\ pc = "rank_all"
    /\ r_i >= Len(r_in)
    /\ ranked' = FilterByThreshold(all_ranked, ranker.signal_threshold)
    /\ pc' = "apply_scores"
    /\ UNCHANGED <<entry, config, item, exc, ranker, r_in, r_i, r_log, r_sleeps,
                   all_ranked, filtered_by_signal>>
    /\ UNCHANGED <<client_vars, novelty_vars, analyze_vars, synth_vars, run_vars>>

\* apply_scores(ranked)
ApplyScores ==
    /\ pc = "apply_scores"
    /\ item' = ApplyScoresTo(item, ranked)
    /\ filtered_by_signal' = ItemsOf(ranked)
    /\ pc' = IF entry = "run" THEN "signal_filtered" ELSE "done"
    /\ UNCHANGED <<entry, config, exc, ranker, r_in, r_i, r_log, r_sleeps,
                   all_ranked, ranked>>
    /\ UNCHANGED <<client_vars, novelty_vars, analyze_vars, synth_vars, run_vars>>

(***************************************************************************)
(* NoveltyDetector                                                         *)
(* Distances are in hundredths; novelty and similarity are in units of     *)
(* 1/200, so that distance / 2.0 is the distance's number of hundredths.   *)
(***************************************************************************)
\* novelty_threshold's default 0.3, similarity_threshold's default 0.8
DefaultNoveltyThreshold == 60

DefaultSimilarityThreshold == 160

\* max_distance = 2.0, in hundredths
MaxDistance == 200

\* 1.0: nothing similar stored
FullNovelty == 200

\* 0.5: the lookup failed
FailedCheckNovelty == 100

\* NoveltyDetector.__init__(novelty_threshold): "novelty_threshold or config..."
NoveltyDetectorInit(novelty_threshold, thresholds) ==
    [novelty_threshold |-> IF novelty_threshold # 0 THEN novelty_threshold
                           ELSE thresholds.novelty_score_min,
     similarity_threshold |-> DefaultSimilarityThreshold]

\* What vector_store.search may do: raise, return something that is not the
\* mapping expected (a list, distances that are no list of numbers), return
\* nothing usable (None, {}, no "distances", "distances": []), or return the
\* distances of one query
LookupRaises == [kind |-> "raise", distances |-> None]

LookupMalformed == [kind |-> "malformed", distances |-> None]

LookupNothing == [kind |-> "results", distances |-> None]

LookupDistances(ds) == [kind |-> "results", distances |-> Some(<<ds>>)]

SeqMin(s) == CHOOSE x \in {s[k] : k \in 1..Len(s)} : \A k \in 1..Len(s) : x <= s[k]

\* A compute_novelty that takes an answer without neighbours for a failure
ComputeNovelty_mut(lookup) ==
    IF lookup.kind = "results" /\ lookup.distances # None /\ lookup.distances[1][1] # <<>>
    THEN Min(SeqMin(lookup.distances[1][1]), MaxDistance)
    ELSE FailedCheckNovelty

\* compute_novelty(item), given what the lookup did
ComputeNovelty(lookup) ==
    IF lookup.kind \in {"raise", "malformed"} THEN FailedCheckNovelty
    ELSE IF lookup.distances = None \/ lookup.distances[1] = <<>> THEN FullNovelty
    ELSE LET distances == lookup.distances[1][1] IN
         IF distances = <<>> THEN FullNovelty
         ELSE LET min_distance == SeqMin(distances)
                  similarity == FullNovelty - Min(min_distance, MaxDistance)
              IN FullNovelty - similarity

\* check_novelty(item): (is_novel, novelty_score)
CheckNovelty(det, lookup) ==
    LET novelty_score == ComputeNovelty(lookup) IN
    [is_novel |-> novelty_score >= det.novelty_threshold, score |-> novelty_score]

Lookups ==
    {LookupRaises, LookupMalformed, LookupNothing, LookupDistances(<<>>),
     LookupDistances(<<40, 150>>),
     LookupDistances(<<59>>), LookupDistances(<<60>>), LookupDistances(<<250>>),
     LookupDistances(<<-20>>)}

RunLookups == {LookupNothing, LookupDistances(<<40, 150>>)}

\* One iteration of filter_novel's loop
FilterNovelStep ==
    /\ pc = "filter_novel"
    /\ n_i < Len(n_in)
    /\ \E lookup \in (IF entry = "run" THEN RunLookups ELSE Lookups) :
         LET id == n_in[n_i + 1]
             \* computed before the loop and only logged
             threshold == IF min_novelty # None /\ min_novelty[1] # 0
                          THEN min_novelty[1] ELSE detector.novelty_threshold
             c == CheckNovelty(detector, lookup)
         IN
         /\ n_log' = Append(n_log, [item |-> id, lookup |-> lookup, score |-> c.score,
                                    is_novel |-> c.is_novel])
         /\ IF c.is_novel
            THEN /\ item' = [item EXCEPT ![id].novelty_score = Some(c.score)]
                 /\ novel_items' = Append(novel_items, id)
            ELSE UNCHANGED <<item, novel_items>>
    /\ n_i' = n_i + 1
    /\ UNCHANGED <<entry, pc, config, exc, detector, n_in, min_novelty>>
    /\ UNCHANGED <<client_vars, rank_vars, analyze_vars, synth_vars, run_vars>>

\* The end of filter_novel: the list of novel items is returned
FilterNovelReturn ==
    /\ pc = "filter_novel"
    /\ n_i >= Len(n_in)
    /\ pc' = IF entry = "run" THEN "novelty_filtered" ELSE "done"
    /\ UNCHANGED <<entry, config, item, exc, novelty_vars>>
    /\ UNCHANGED <<client_vars, rank_vars, analyze_vars, synth_vars, run_vars>>

(***************************************************************************)
(* Analyzer                                                                *)
(***************************************************************************)
\* A Python string held as a tuple of characters (titles, contents, summaries)
Text(chars) == [t |-> "text", chars |-> chars]

Digit == <<"1", "2", "3", "4", "5", "6", "7", "8", "9", "a", "b", "c", "d">>

\* The title of item k
Title(k) == <<"T", Digit[k]>>

\* summary[:500]
SummaryLen == 500

\* confidence, in hundredths: the fallback's 0.3, _parse_result's default 0.7
FallbackConfidence == 30

DefaultConfidence == 70

\* float("...") on the strings the model may send, in hundredths
FloatOfStr(x) ==
    CASE x = "0.9" -> [ok |-> TRUE, v |-> 90]
      [] x = "7" -> [ok |-> TRUE, v |-> 700]
      [] OTHER -> [ok |-> FALSE, type |-> "ValueError"]

\* float(j) of Python, in hundredths
FloatOf(j) ==
    CASE j.t = "int" -> [ok |-> TRUE, v |-> 100 * j.i]
      [] j.t = "float" -> [ok |-> TRUE, v |-> 10 * j.tenths]
      [] j.t = "str" -> FloatOfStr(j.s)
      [] OTHER -> [ok |-> FALSE, type |-> "TypeError"]

\* min(1.0, max(0.0, v)), in hundredths
ClampConfidence(v) == Min(100, Max(0, v))

\* Analyzer.__init__(client, store_results, request_delay)
AnalyzerInit(store_results, request_delay, thresholds) ==
    [store_results |-> store_results,
     request_delay |-> IF request_delay # None THEN request_delay[1]
                       ELSE thresholds.request_delay]

AnalysisResult(item_id, summary, key_insights, technical_details, relevance_to_claude, actionability, related_topics, confidence) ==
    [item_id |-> item_id, summary |-> summary, key_insights |-> key_insights,
     technical_details |-> technical_details,
     relevance_to_claude |-> relevance_to_claude, actionability |-> actionability,
     related_topics |-> related_topics, confidence |-> confidence]

\* _parse_result(item_id, data)
ParseResult(item_id, data) ==
    IF data.t # "dict" THEN Raised("AttributeError")
    ELSE
      LET c == FloatOf(DictGet(data, "confidence", JFloat(DefaultConfidence \div 10))) IN
      IF ~c.ok THEN Raised(c.type)
      ELSE Returned(AnalysisResult(
              item_id,
              DictGet(data, "summary", JStr("Unable to generate summary.")),
              DictGet(data, "key_insights", JList(<<>>)),
              DictGet(data, "technical_details", JNull),
              DictGet(data, "relevance_to_claude", JStr("")),
              DictGet(data, "actionability", JStr("medium")),
              DictGet(data, "related_topics", JList(<<>>)),
              ClampConfidence(c.v)))

RECURSIVE FirstSentence(_)
\* content.split(".")[0]
FirstSentence(content) ==
    IF content = <<>> \/ Head(content) = "." THEN <<>>
    ELSE <<Head(content)>> \o FirstSentence(Tail(content))

\* _fallback_analysis(item)
FallbackAnalysis(id) ==
    LET it == item[id]
        summary == IF it.content # <<>> THEN FirstSentence(it.content) \o <<".">>
                   ELSE it.title
    IN AnalysisResult(
          id,
          Text(Take(summary, SummaryLen)),
          JList(<<JStr("Analysis unavailable - using fallback")>>),
          JNull,
          JStr("Unable to assess"),
          JStr("medium"),
          JList(<<JStr(it.source_type)>>),
          FallbackConfidence)

\* "\n".join(result.key_insights) works: an iterable of strings
CanJoin(j) ==
    CASE j.t = "list" -> \A k \in 1..Len(j.xs) : j.xs[k].t = "str"
      [] j.t = "str" -> TRUE
      [] j.t = "dict" -> TRUE
      [] OTHER -> FALSE

\* The document _store_analysis adds to the "analysis" collection
AnalysisDocument(id, result) ==
    [id |-> id,
     document |-> [summary |-> result.summary, key_insights |-> result.key_insights],
     metadata |-> [item_id |-> id,
                   source_type |-> item[id].source_type,
                   actionability |-> result.actionability,
                   confidence |-> result.confidence]]

\* _store_analysis(item, result): the documents added (none when the text
\* cannot be built or vector_store.add raises; the error is swallowed)
StoreAnalysis(id, result, store_beh) ==
    IF CanJoin(result.key_insights) /\ store_beh = "ok"
    THEN <<AnalysisDocument(id, result)>>
    ELSE <<>>

\* Whether analyze reaches vector_store.add for this client behaviour
ReachesStore(an, id, beh) ==
    /\ an.store_results
    /\ beh.kind = "response"
    /\ Truthy(beh.json_data)
    /\ ParseResult(id, beh.json_data).status = "returned"
    /\ CanJoin(ParseResult(id, beh.json_data).value.key_insights)

\* The exception types of the model: all are subclasses of Exception.
ExceptionTypes ==
    ClaudeClientErrors
    \cup {"RuntimeError", "ValueError", "TypeError", "AttributeError", "KeyError", "OSError"}

\* What vector_store.add raises when it fails
StoreError == "OSError"

\* A _store_analysis without its handler
StoreAnalysisCatches_mut(type) == FALSE

\* _store_analysis's handler: except Exception
StoreAnalysisCatches(type) == type \in ExceptionTypes

\* _store_synthesis's handler: except Exception
StoreSynthesisCatches(type) == type \in ExceptionTypes

\* The try block of analyze: the client call, the parse, the store.
AnalyzeBody(an, id, beh, store_beh) ==
    IF beh.kind = "raise" THEN Raised(beh.type)
    ELSE IF ~Truthy(beh.json_data)
    THEN [status |-> "returned", result |-> Some(FallbackAnalysis(id)), docs |-> <<>>]
    ELSE
      LET p == ParseResult(id, beh.json_data) IN
      IF p.status = "raised" THEN p
      ELSE IF an.store_results /\ CanJoin(p.value.key_insights) /\ store_beh = "raise"
                /\ ~StoreAnalysisCatches(StoreError)
      THEN Raised(StoreError)
      ELSE [status |-> "returned", result |-> Some(p.value),
            docs |-> IF an.store_results
                     THEN StoreAnalysis(id, p.value, store_beh) ELSE <<>>]

\* An analyze that catches client errors only, as rank_batch does.
AnalyzeCatches_mut(type) == type \in ClaudeClientErrors

\* analyze's handlers: except ClaudeClientError, then except Exception
AnalyzeCatches(type) == type \in ClaudeClientErrors \/ type \in ExceptionTypes

\* analyze(item) when the client behaves as beh and the store as store_beh:
\* the result (an optional AnalysisResult) and the documents stored
Analyze(an, id, beh, store_beh) ==
    LET b == AnalyzeBody(an, id, beh, store_beh) IN
    IF b.status = "raised" /\ AnalyzeCatches(b.type)
    THEN [status |-> "returned", result |-> Some(FallbackAnalysis(id)), docs |-> <<>>]
    ELSE b

\* ---- what the model client may do for one analyze call ----
AnalysisJsonFull ==
    E([summary |-> JStr("S"), key_insights |-> JList(<<JStr("i1"), JStr("i2")>>),
       technical_details |-> JStr("d"), relevance_to_claude |-> JStr("r"),
       actionability |-> JStr("high"), related_topics |-> JList(<<JStr("t")>>),
       confidence |-> JFloat(9)])

AnalysisJsonPartial == E([summary |-> JStr("S")])

AnalysisJsonBigConfidence == E([summary |-> JStr("S"), confidence |-> JInt(15)])

AnalysisJsonNegConfidence == E([summary |-> JStr("S"), confidence |-> JFloat(-30)])

AnalysisJsonBadConfidence == E([summary |-> JStr("S"), confidence |-> JStr("high")])

AnalysisJsonBadInsights == E([summary |-> JStr("S"), key_insights |-> JInt(5)])

AnalysisJsonList == JList(<<AnalysisJsonPartial>>)

AnalysisJsons ==
    {AnalysisJsonFull, AnalysisJsonPartial, AnalysisJsonBigConfidence,
     AnalysisJsonNegConfidence, AnalysisJsonBadConfidence, AnalysisJsonBadInsights,
     AnalysisJsonList}

AnalyzeBehaviours ==
    ClientErrorBehaviours \cup {ClientRaises("RuntimeError"), ClientReturns(JNull)}
    \cup {ClientReturns(j) : j \in AnalysisJsons}

RunAnalyzeBehaviours ==
    {ClientRaises("ClaudeAPIError"), ClientReturns(AnalysisJsonFull)}

StoreBehaviours == {"ok", "raise"}

RunStoreBehaviours == {"ok"}

\* ---- analyze_batch, one item per step ----
\* A loop that puts each new pair in front
AppendPair_mut(pairs, pair) == <<pair>> \o pairs

\* results.append((item, result))
AppendPair(pairs, pair) == Append(pairs, pair)

AnalyzeStep ==
    /\ pc = "analyze_batch"
    /\ a_i < Len(a_in)
    /\ \E beh \in (IF entry = "run" THEN RunAnalyzeBehaviours ELSE AnalyzeBehaviours) :
       \E store_beh \in (IF entry = "run" THEN RunStoreBehaviours ELSE StoreBehaviours) :
         LET id == a_in[a_i + 1]
             used == ReachesStore(analyzer, id, beh)
             res == Analyze(analyzer, id, beh, store_beh)
         IN
         /\ used \/ store_beh = "ok"
         /\ a_log' = Append(a_log, [item |-> id, beh |-> beh,
                                    store |-> IF used THEN store_beh ELSE "unused"])
         /\ IF res.status = "raised"
            THEN /\ exc' = res.type
                 /\ pc' = RaisePc
                 /\ UNCHANGED <<results, analysis_store, a_sleeps, a_i>>
            ELSE /\ results' = AppendPair(results, [item |-> id, result |-> res.result])
                 /\ analysis_store' = analysis_store \o res.docs
                 /\ a_sleeps' = IF analyzer.request_delay > 0 /\ a_i < Len(a_in) - 1
                                THEN Append(a_sleeps, analyzer.request_delay)
                                ELSE a_sleeps
                 /\ a_i' = a_i + 1
                 /\ UNCHANGED <<pc, exc>>
    /\ UNCHANGED <<entry, config, item, rank_vars, analyzer, a_in>>
    /\ UNCHANGED <<client_vars, novelty_vars, run_vars, synth_vars>>

\* The end of analyze_batch: the list of pairs is returned.
AnalyzeBatchReturn ==
    /\ pc = "analyze_batch"
    /\ a_i >= Len(a_in)
    /\ pc' = IF entry = "run" THEN "analyzed" ELSE "done"
    /\ UNCHANGED <<entry, config, item, exc, rank_vars, analyze_vars>>
    /\ UNCHANGED <<client_vars, novelty_vars, run_vars, synth_vars>>

(***************************************************************************)
(* Synthesizer                                                             *)
(***************************************************************************)
\* The fallback's relevance_score, _parse_*_synthesis' default, the clamp range
FallbackRelevance == 5

DefaultRelevance == 5

MinRelevance == 1

MaxRelevance == 10

\* How many item titles each fallback takes
DailyHighlights == 3

WeeklyTopStories == 5

MonthlyDevelopments == 10

\* _format_items_for_prompt's max_items: the default, and monthly's
MaxPromptItems == 50

MaxPromptItemsMonthly == 100

\* A formatted string: the template and the number put into it
Fmt(template, n) == [t |-> "fmt", template |-> template, n |-> n]

\* The period key: the date, week or month of the call
Period(m) ==
    CASE m = "weekly" -> "week"
      [] m = "monthly" -> "month"
      [] OTHER -> "date"

\* The synthesize_* method run()'s _synthesize picks for a mode
SynthMethod(m) == IF m \in {"weekly", "monthly"} THEN m ELSE "daily"

\* x[:n] works for a str and a list: anything else raises TypeError
Sliceable(j) == j.t \in {"str", "text", "list"}

\* _format_items_for_prompt(items, max_items): it reads analysis.summary[:200]
\* of every pair that has an analysis
FormatItemsForPrompt(pairs, max_items) ==
    LET shown == Take(pairs, max_items)
        bad == {k \in 1..Len(shown) :
                  shown[k].result # None /\ ~Sliceable(shown[k].result[1].summary)}
    IN IF bad # {} THEN Raised("TypeError") ELSE Returned(Len(shown))

\* The max_items each synthesize_* passes
PromptLimit(m) == IF m = "monthly" THEN MaxPromptItemsMonthly ELSE MaxPromptItems

\* min(10, max(1, v))
ClampRelevance(v) == Min(MaxRelevance, Max(MinRelevance, v))

\* _parse_daily_synthesis / _parse_weekly_synthesis / _parse_monthly_synthesis
ParseSynthesis(m, data) ==
    IF data.t # "dict" THEN Raised("AttributeError")
    ELSE
      LET n == IntOf(DictGet(data, "relevance_score", JInt(DefaultRelevance))) IN
      IF ~n.ok THEN Raised(n.type)
      ELSE Returned(
        CASE m = "weekly" ->
               [kind |-> "WeeklySynthesis", week |-> Period(m),
                relevance_score |-> ClampRelevance(n.v),
                top_stories |-> DictGet(data, "top_stories", JList(<<>>)),
                trends |-> DictGet(data, "trends", JList(<<>>)),
                competitive_moves |-> DictGet(data, "competitive_moves", JList(<<>>)),
                emerging_technologies |-> DictGet(data, "emerging_technologies", JList(<<>>)),
                recommendations |-> DictGet(data, "recommendations", JList(<<>>)),
                summary |-> DictGet(data, "summary", JStr(""))]
          [] m = "monthly" ->
               [kind |-> "MonthlySynthesis", month |-> Period(m),
                relevance_score |-> ClampRelevance(n.v),
                major_developments |-> DictGet(data, "major_developments", JList(<<>>)),
                trend_analysis |-> DictGet(data, "trend_analysis", JStr("")),
                ecosystem_changes |-> DictGet(data, "ecosystem_changes", JList(<<>>)),
                competitive_landscape |-> DictGet(data, "competitive_landscape", JStr("")),
                predictions |-> DictGet(data, "predictions", JList(<<>>)),
                recommendations |-> DictGet(data, "recommendations", JList(<<>>)),
                summary |-> DictGet(data, "summary", JStr(""))]
          [] OTHER ->
               [kind |-> "DailySynthesis", date |-> Period(m),
                relevance_score |-> ClampRelevance(n.v),
                highlights |-> DictGet(data, "highlights", JList(<<>>)),
                patterns |-> DictGet(data, "patterns", JList(<<>>)),
                recommendations |-> DictGet(data, "recommendations", JList(<<>>)),
                key_changes |-> DictGet(data, "key_changes", JList(<<>>)),
                summary |-> DictGet(data, "summary", JStr("Synthesis unavailable."))])

\* [item.title for item, _ in items[:n]]
FirstTitles_mut(pairs, n) == [k \in 1..Len(pairs) |-> Text(item[pairs[k].item].title)]

\* [item.title for item, _ in items[:n]]
FirstTitles(pairs, n) ==
    [k \in 1..Min(n, Len(pairs)) |-> Text(item[pairs[k].item].title)]

\* _fallback_daily / _fallback_weekly / _fallback_monthly
FallbackSynthesis(m, pairs) ==
    CASE m = "weekly" ->
           [kind |-> "WeeklySynthesis", week |-> Period(m),
            relevance_score |-> FallbackRelevance,
            top_stories |->
                JList([k \in 1..Min(WeeklyTopStories, Len(pairs)) |->
                         E([title |-> FirstTitles(pairs, WeeklyTopStories)[k],
                            significance |-> JStr("")])]),
            trends |-> JList(<<>>),
            competitive_moves |-> JList(<<>>),
            emerging_technologies |-> JList(<<>>),
            recommendations |-> JList(<<JStr("Review items manually")>>),
            summary |-> Fmt("Weekly synthesis for {week}. Processed {n} items.", Len(pairs))]
      [] m = "monthly" ->
           [kind |-> "MonthlySynthesis", month |-> Period(m),
            relevance_score |-> FallbackRelevance,
            major_developments |->
                JList([k \in 1..Min(MonthlyDevelopments, Len(pairs)) |->
                         E([title |-> FirstTitles(pairs, MonthlyDevelopments)[k],
                            impact |-> JStr(""), timeline |-> JStr("")])]),
            trend_analysis |-> JStr("Monthly synthesis unavailable."),
            ecosystem_changes |-> JList(<<>>),
            competitive_landscape |-> JStr(""),
            predictions |-> JList(<<>>),
            recommendations |-> JList(<<JStr("Review items manually")>>),
            summary |-> Fmt("Monthly synthesis for {month}. Processed {n} items.", Len(pairs))]
      [] OTHER ->
           [kind |-> "DailySynthesis", date |-> Period(m),
            relevance_score |-> FallbackRelevance,
            highlights |-> JList(FirstTitles(pairs, DailyHighlights)),
            patterns |-> JList(<<JStr("Synthesis unavailable - using fallback")>>),
            recommendations |-> JList(<<JStr("Review items manually")>>),
            key_changes |-> JList(<<>>),
            summary |-> Fmt("Processed {n} items. Synthesis generation failed.", Len(pairs))]

\* The document _store_synthesis adds to the "synthesis" collection (none
\* when vector_store.add raises; the error is swallowed)
StoreSynthesis(m, content, store_beh) ==
    IF store_beh = "ok"
    THEN <<[id |-> <<"synthesis", m, Period(m)>>, document |-> content,
            metadata |-> [mode |-> m, period |-> Period(m)]]>>
    ELSE <<>>

\* The try block of synthesize_*: the client call, the parse, the store.
SynthesizeBody(syn, m, pairs, beh, store_beh) ==
    IF beh.kind = "raise" THEN Raised(beh.type)
    ELSE IF ~Truthy(beh.json_data)
    THEN [status |-> "returned", result |-> Some(FallbackSynthesis(m, pairs)), docs |-> <<>>]
    ELSE
      LET p == ParseSynthesis(m, beh.json_data) IN
      IF p.status = "raised" THEN p
      ELSE IF syn.store_results /\ store_beh = "raise" /\ ~StoreSynthesisCatches(StoreError)
      THEN Raised(StoreError)
      ELSE [status |-> "returned", result |-> Some(p.value),
            docs |-> IF syn.store_results
                     THEN StoreSynthesis(m, p.value.summary, store_beh) ELSE <<>>]

\* synthesize_*'s handler: except ClaudeClientError
SynthCatches(type) == type \in ClaudeClientErrors

\* synthesize_daily / synthesize_weekly / synthesize_monthly (m) on the pairs
Synthesize(syn, m, pairs, beh, store_beh) ==
    LET f == FormatItemsForPrompt(pairs, PromptLimit(m)) IN
    IF f.status = "raised" THEN f
    ELSE LET b == SynthesizeBody(syn, m, pairs, beh, store_beh) IN
         IF b.status = "raised" /\ SynthCatches(b.type)
         THEN [status |-> "returned", result |-> Some(FallbackSynthesis(m, pairs)),
               docs |-> <<>>]
         ELSE b

\* Whether the call reaches vector_store.add for this client behaviour
SynthReachesStore(syn, m, pairs, beh) ==
    /\ syn.store_results
    /\ FormatItemsForPrompt(pairs, PromptLimit(m)).status = "returned"
    /\ beh.kind = "response"
    /\ Truthy(beh.json_data)
    /\ ParseSynthesis(m, beh.json_data).status = "returned"

\* ---- what the model client may do for one synthesis call ----
SynthJsonFull ==
    E([relevance_score |-> JInt(8), summary |-> JStr("S"),
       highlights |-> JList(<<JStr("h1"), JStr("h2")>>),
       patterns |-> JList(<<JStr("p")>>),
       recommendations |-> JList(<<JStr("r")>>),
       key_changes |-> JList(<<>>),
       top_stories |-> JList(<<E([title |-> JStr("s"), significance |-> JStr("g")])>>),
       trends |-> JList(<<JStr("t1")>>),
       major_developments |-> JList(<<E([title |-> JStr("m")])>>),
       trend_analysis |-> JStr("a")])

SynthJsonPartial == E([summary |-> JStr("S")])

SynthJsonBigRelevance == E([relevance_score |-> JInt(15)])

SynthJsonNegRelevance == E([relevance_score |-> JInt(-3)])

SynthJsonStrRelevance == E([relevance_score |-> JStr("7")])

SynthJsonFloatRelevance == E([relevance_score |-> JFloat(75)])

SynthJsonNonNumeric == E([relevance_score |-> JStr("high")])

SynthJsonNullRelevance == E([relevance_score |-> JNull])

SynthJsonList == JList(<<SynthJsonPartial>>)

\* numbers where lists are expected
SynthJsonBadLists ==
    E([relevance_score |-> JInt(6), highlights |-> JInt(5), trends |-> JInt(5)])

SynthJsons ==
    {SynthJsonFull, SynthJsonPartial, SynthJsonBigRelevance, SynthJsonNegRelevance,
     SynthJsonStrRelevance, SynthJsonFloatRelevance, SynthJsonNonNumeric,
     SynthJsonNullRelevance, SynthJsonList, SynthJsonBadLists}

SynthBehaviours ==
    ClientErrorBehaviours \cup {ClientRaises("RuntimeError"), ClientReturns(JNull)}
    \cup {ClientReturns(j) : j \in SynthJsons}

RunSynthBehaviours ==
    {ClientRaises("ClaudeTimeoutError"), ClientReturns(SynthJsonFull),
     ClientReturns(SynthJsonNonNumeric), ClientReturns(SynthJsonBadLists)}

\* ---- one synthesize_* call ----
SynthesizeStep ==
    /\ pc = "synthesize"
    /\ \E beh \in (IF entry = "run" THEN RunSynthBehaviours ELSE SynthBehaviours) :
       \E store_beh \in StoreBehaviours :
         LET m == SynthMethod(mode)
             used == SynthReachesStore(synthesizer, m, s_in, beh)
             res == Synthesize(synthesizer, m, s_in, beh, store_beh)
         IN
         /\ used \/ store_beh = "ok"
         /\ s_log' = Append(s_log, [beh |-> beh,
                                    store |-> IF used THEN store_beh ELSE "unused"])
         /\ IF res.status = "raised"
            THEN /\ exc' = res.type
                 /\ pc' = RaisePc
                 /\ UNCHANGED <<synthesis, synthesis_store>>
            ELSE /\ synthesis' = res.result
                 /\ synthesis_store' = synthesis_store \o res.docs
                 /\ pc' = IF entry = "run" THEN "output" ELSE "done"
                 /\ exc' = exc
    /\ UNCHANGED <<entry, config, item, rank_vars, analyze_vars, synthesizer, mode, s_in>>
    /\ UNCHANGED <<client_vars, novelty_vars, run_vars>>

(***************************************************************************)
(* Notifier                                                                *)
(***************************************************************************)
\* NtfyConfig.enabled's default
NtfyEnabledDefault == TRUE

\* Notifier.__init__(enabled): the argument, or the configuration's value
NotifierInit(enabled, ntfy_enabled) ==
    [enabled |-> IF enabled # None THEN enabled[1] ELSE ntfy_enabled]

\* What the HTTP post may do: succeed, or raise an httpx.HTTPError
HttpOutcomes == {"ok", "HTTPError"}

\* Notifier.send: False when disabled, False on an HTTP error, True otherwise
Send(n, http) == n.enabled /\ http = "ok"

\* x[0] of Python on a JSON value
Index0(j) ==
    CASE j.t = "list" -> Returned(j.xs[1])
      [] j.t = "text" -> Returned(Text(<<j.chars[1]>>))
      [] j.t = "str" -> Returned([t |-> "char", of |-> j.s])
      [] j.t = "dict" -> Raised("KeyError")
      [] OTHER -> Raised("TypeError")

\* x[:n] of Python on a JSON value, for n not below the model's lengths
Slice(j) == IF Sliceable(j) \/ j.t = "char" THEN Returned(j) ELSE Raised("TypeError")

\* The elements "for p in x" visits (a list's elements; a string's characters
\* are strings again)
Elements(j) == IF j.t = "list" THEN j.xs ELSE <<>>

\* notify_daily_complete(date, items_analyzed, items_discarded, relevance_score,
\* highlight): the message, or the exception of highlight[:100]
NotifyDailyComplete(items_analyzed, items_discarded, relevance_score, highlight) ==
    IF highlight # None /\ Truthy(highlight[1]) /\ Slice(highlight[1]).status = "raised"
    THEN Raised("TypeError")
    ELSE Returned([kind |-> "daily_complete", items_analyzed |-> items_analyzed,
                   items_discarded |-> items_discarded,
                   relevance_score |-> relevance_score, highlight |-> highlight])

\* notify_daily_errors(date, items_analyzed, failed_collectors)
NotifyDailyErrors(items_analyzed, failed_collectors) ==
    [kind |-> "daily_errors", items_analyzed |-> items_analyzed,
     failed_collectors |-> failed_collectors]

\* notify_cycle_failed(date, error)
NotifyCycleFailed(error) == [kind |-> "cycle_failed", error |-> error]

\* notify_weekly_complete(week, relevance_score, patterns): p[:50] of every pattern
NotifyWeeklyComplete(week, relevance_score, patterns) ==
    IF \E k \in 1..Len(Elements(patterns)) : Slice(Elements(patterns)[k]).status = "raised"
    THEN Raised("TypeError")
    ELSE Returned([kind |-> "weekly_complete", week |-> week,
                   relevance_score |-> relevance_score, patterns |-> patterns])

\* notify_monthly_complete(month, relevance_score)
NotifyMonthlyComplete(month, relevance_score) ==
    [kind |-> "monthly_complete", month |-> month, relevance_score |-> relevance_score]

(***************************************************************************)
(* AIArchitect: the orchestrator                                           *)
(***************************************************************************)
\* The largest number of items the collectors of one run return together
MaxCollected == 2

\* _collect's list of collectors, in its order
Collectors ==
    <<"docs", "github_signals", "github_emerging", "github_repos", "blogs",
      "stackoverflow", "reddit", "hackernews">>

\* The fields of CollectorsConfig: reddit and hackernews have none
ConfiguredCollectors ==
    {"docs", "github_signals", "github_emerging", "github_repos", "blogs", "stackoverflow"}

\* The fields of NotificationsConfig
NotificationsFields == {"ntfy"}

\* A test that skips the collectors that have no configuration
CollectorRuns_mut(cfg, name) == name \in DOMAIN cfg /\ cfg[name].enabled

\* Whether _collect runs the collector: it skips one whose configuration
\* exists and says enabled = False
CollectorRuns(cfg, name) == ~(name \in DOMAIN cfg /\ ~cfg[name].enabled)

\* CycleMetrics.__init__
NewMetrics ==
    [items_collected |-> 0, items_by_source |-> <<>>, items_processed |-> 0,
     items_discarded |-> 0, collectors_failed |-> <<>>, items_analyzed |-> 0,
     analysis_errors |-> 0]

\* dict[key] = value
DictSet(d, key, value) == [k \in DOMAIN d \cup {key} |-> IF k = key THEN value ELSE d[k]]

\* What a collector may do: raise, or return n items with or without errors
CollectorOutcomes(room) ==
    {[kind |-> "raise", n |-> 0, errors |-> FALSE]}
    \cup {[kind |-> "result", n |-> n, errors |-> e] : n \in 0..room, e \in BOOLEAN}

\* The items a collector returns: new objects after the ones that exist
Collected(heap, name, n) ==
    [k \in 1..(Len(heap) + n) |->
        IF k <= Len(heap) THEN heap[k]
        ELSE NewItem(name, FALSE, Title(k), <<"A", ".", "B">>)]

\* sum(1 for _, r in results if r is not None) and its complement
RECURSIVE CountAnalyzed(_)
CountAnalyzed(rs) ==
    IF rs = <<>> THEN 0
    ELSE (IF Head(rs).result # None THEN 1 ELSE 0) + CountAnalyzed(Tail(rs))

\* A handler that catches the client's errors only
RunCatches_mut(type) == type \in ClaudeClientErrors

\* run()'s handler: except Exception
RunCatches(type) == TRUE

\* An emptiness test that never sees an empty list
NothingToDo_mut(items) == FALSE

\* run()'s "if not items" / "if not processed_items"
NothingToDo(items) == items = <<>>

\* The notifications _notify_complete hands to the notifier, or the exception
\* it raises while building them
NotifyCompletePlan(m, syn, met) ==
    IF syn = None THEN Returned(<<>>)
    ELSE
    CASE m = "daily" ->
           LET h == IF Truthy(syn[1].highlights) THEN Index0(syn[1].highlights)
                    ELSE Returned(JNull)
           IN IF h.status = "raised" THEN h
              ELSE LET highlight == IF Truthy(syn[1].highlights) THEN Some(h.value) ELSE None
                       first == NotifyDailyComplete(met.items_analyzed, met.items_discarded,
                                                    syn[1].relevance_score, highlight)
                   IN IF first.status = "raised" THEN first
                      ELSE Returned(<<first.value>> \o
                             (IF met.collectors_failed # <<>>
                              THEN <<NotifyDailyErrors(met.items_analyzed,
                                                       met.collectors_failed)>>
                              ELSE <<>>))
      [] m = "weekly" ->
           LET t == IF Truthy(syn[1].trends) THEN Slice(syn[1].trends)
                    ELSE Returned(JList(<<>>))
           IN IF t.status = "raised" THEN t
              ELSE LET n == NotifyWeeklyComplete(syn[1].week, syn[1].relevance_score, t.value)
                   IN IF n.status = "raised" THEN n ELSE Returned(<<n.value>>)
      [] m = "monthly" ->
           Returned(<<NotifyMonthlyComplete(syn[1].month, syn[1].relevance_score)>>)
      [] OTHER -> Returned(<<>>)

\* The notifier's log after the notifications ns were sent with the outcomes hs
Delivered(n, ns, hs) == [k \in 1..Len(ns) |-> [msg |-> ns[k], sent |-> Send(n, hs[k])]]

\* Outcomes for the posts that are made: none is chosen where none is made
UsedOutcomes(n, count) ==
    {hs \in [1..count -> HttpOutcomes] : n.enabled \/ \A k \in 1..count : hs[k] = "ok"}

\* ---- run() ----
\* run() is called: the try block begins with _collect()
Run ==
    /\ pc = "start"
    /\ pc' = "collect"
    /\ phases' = Append(phases, "collection")
    /\ UNCHANGED <<entry, config, item, exc, collectors_config, col_i, col_log, all_items, metrics,
                   notifier, notifications, output_files, returned>>
    /\ UNCHANGED <<client_vars, rank_vars, novelty_vars, analyze_vars, synth_vars>>

\* One iteration of _collect's loop
CollectStep ==
    /\ pc = "collect"
    /\ col_i < Len(Collectors)
    /\ LET name == Collectors[col_i + 1] IN
       IF ~CollectorRuns(collectors_config, name)
       THEN UNCHANGED <<item, all_items, metrics, col_log>>
       ELSE \E out \in CollectorOutcomes(MaxCollected - Len(all_items)) :
            /\ col_log' = Append(col_log, [name |-> name, out |-> out])
            /\ IF out.kind = "raise"
              THEN /\ metrics' = [metrics EXCEPT
                                    !.collectors_failed = Append(@, name)]
                   /\ UNCHANGED <<item, all_items>>
              ELSE /\ item' = Collected(item, name, out.n)
                   /\ all_items' = all_items \o [k \in 1..out.n |-> Len(item) + k]
                   /\ metrics' = [metrics EXCEPT
                                    !.items_by_source = DictSet(@, name, out.n),
                                    !.items_collected = @ + out.n,
                                    !.collectors_failed =
                                        IF out.errors THEN Append(@, name) ELSE @]
    /\ col_i' = col_i + 1
    /\ UNCHANGED <<entry, pc, config, exc, collectors_config, notifier, notifications,
                   output_files, phases, returned>>
    /\ UNCHANGED <<client_vars, rank_vars, novelty_vars, analyze_vars, synth_vars>>

\* _collect returns; with no items run() notifies and returns True, otherwise
\* _process begins with rank_all(items)
CollectReturn ==
    /\ pc = "collect"
    /\ col_i >= Len(Collectors)
    /\ IF entry = "collect"
       THEN /\ pc' = "done"
            /\ UNCHANGED <<r_in, phases, notifications, returned>>
       ELSE IF NothingToDo(all_items)
       THEN /\ \E hs \in UsedOutcomes(notifier, 1) :
                 notifications' = notifications \o
                     Delivered(notifier, <<NotifyDailyComplete(0, 0, 0, None).value>>, hs)
            /\ returned' = Some(TRUE)
            /\ pc' = "done"
            /\ UNCHANGED <<r_in, phases>>
       ELSE /\ r_in' = all_items
            /\ phases' = Append(phases, "processing")
            /\ pc' = "rank_all"
            /\ UNCHANGED <<notifications, returned>>
    /\ UNCHANGED <<entry, config, item, exc, collectors_config, col_i, col_log, all_items, metrics,
                   notifier, output_files>>
    /\ UNCHANGED <<ranker, r_i, r_log, r_sleeps, all_ranked, ranked, filtered_by_signal>>
    /\ UNCHANGED <<client_vars, novelty_vars, analyze_vars, synth_vars>>

\* A count that takes every item given to the filter as dropped
Dropped_mut(before, after) == Len(before)

\* len(items) - len(filtered_by_signal), len(filtered_by_signal) - len(novel_items)
Dropped(before, after) == Len(before) - Len(after)

\* _process after apply_scores: the discard count, then filter_novel is called
ProcessSignalFiltered ==
    /\ pc = "signal_filtered"
    /\ metrics' = [metrics EXCEPT
                     !.items_discarded = @ + Dropped(r_in, filtered_by_signal)]
    /\ n_in' = filtered_by_signal
    /\ pc' = "filter_novel"
    /\ UNCHANGED <<entry, config, item, exc, collectors_config, col_i, col_log, all_items,
                   notifier, notifications, output_files, phases, returned>>
    /\ UNCHANGED <<detector, min_novelty, n_i, n_log, novel_items>>
    /\ UNCHANGED <<client_vars, rank_vars, analyze_vars, synth_vars>>

\* _process returns; with no items run() returns True, otherwise _analyze
\* begins with analyze_batch(items)
ProcessReturn ==
    /\ pc = "novelty_filtered"
    /\ metrics' = [metrics EXCEPT
                     !.items_discarded = @ + Dropped(filtered_by_signal, novel_items),
                     !.items_processed = Len(novel_items)]
    /\ IF NothingToDo(novel_items)
       THEN /\ returned' = Some(TRUE)
            /\ pc' = "done"
            /\ UNCHANGED <<a_in, phases>>
       ELSE /\ a_in' = novel_items
            /\ phases' = Append(phases, "analysis")
            /\ pc' = "analyze_batch"
            /\ UNCHANGED returned
    /\ UNCHANGED <<entry, config, item, exc, collectors_config, col_i, col_log, all_items,
                   notifier, notifications, output_files>>
    /\ UNCHANGED <<analyzer, a_i, a_log, a_sleeps, results, analysis_store>>
    /\ UNCHANGED <<client_vars, rank_vars, novelty_vars, synth_vars>>

\* _analyze after analyze_batch: the counts, then _synthesize is called
AnalyzeReturn ==
    /\ pc = "analyzed"
    /\ metrics' = [metrics EXCEPT
                     !.items_analyzed = CountAnalyzed(results),
                     !.analysis_errors = Len(results) - CountAnalyzed(results)]
    /\ s_in' = results
    /\ phases' = Append(phases, "synthesis")
    /\ pc' = "synthesize"
    /\ UNCHANGED <<entry, config, item, exc, collectors_config, col_i, col_log, all_items,
                   notifier, notifications, output_files, returned>>
    /\ UNCHANGED <<synthesizer, mode, s_log, synthesis, synthesis_store>>
    /\ UNCHANGED <<client_vars, rank_vars, novelty_vars, analyze_vars>>

\* What writing the files may do: both written, the report's write fails, the
\* index's write fails
OutputOutcomes == {"ok", "report_fails", "index_fails"}

RunOutputOutcomes == {"ok", "index_fails"}

\* _generate_output: the mode's report, then the index
GenerateOutput ==
    /\ pc = "output"
    /\ phases' = Append(phases, "output")
    /\ \E out \in RunOutputOutcomes :
         LET has_report == mode \in {"daily", "weekly", "monthly"} /\ synthesis # None
             report == IF has_report /\ out # "report_fails" THEN <<mode>> ELSE <<>>
         IN
         /\ has_report \/ out # "report_fails"
         /\ IF out = "ok"
            THEN /\ output_files' = output_files \o report \o <<"index">>
                 /\ pc' = "notify_complete"
                 /\ exc' = exc
            ELSE /\ output_files' = output_files \o report
                 /\ exc' = "OSError"
                 /\ pc' = RaisePc
    /\ UNCHANGED <<entry, config, item, collectors_config, col_i, col_log, all_items, metrics,
                   notifier, notifications, returned>>
    /\ UNCHANGED <<client_vars, rank_vars, novelty_vars, analyze_vars, synth_vars>>

\* _notify_complete(synthesis)
NotifyComplete ==
    /\ pc = "notify_complete"
    /\ phases' = Append(phases, "notification")
    /\ LET plan == NotifyCompletePlan(mode, synthesis, metrics) IN
       IF plan.status = "raised"
       THEN /\ exc' = plan.type
            /\ pc' = RaisePc
            /\ UNCHANGED notifications
       ELSE /\ \E hs \in UsedOutcomes(notifier, Len(plan.value)) :
                 notifications' = notifications \o Delivered(notifier, plan.value, hs)
            /\ pc' = "email"
            /\ exc' = exc
    /\ UNCHANGED <<entry, config, item, collectors_config, col_i, col_log, all_items, metrics,
                   notifier, output_files, returned>>
    /\ UNCHANGED <<client_vars, rank_vars, novelty_vars, analyze_vars, synth_vars>>

\* _send_email_report(): it reads config.notifications.email before any try;
\* after it run() returns True
SendEmailReport ==
    /\ pc = "email"
    /\ phases' = Append(phases, "email")
    /\ IF "email" \notin NotificationsFields
       THEN /\ exc' = "AttributeError"
            /\ pc' = RaisePc
            /\ UNCHANGED returned
       ELSE /\ returned' = Some(TRUE)
            /\ pc' = "done"
            /\ exc' = exc
    /\ UNCHANGED <<entry, config, item, collectors_config, col_i, col_log, all_items, metrics,
                   notifier, notifications, output_files>>
    /\ UNCHANGED <<client_vars, rank_vars, novelty_vars, analyze_vars, synth_vars>>

\* run()'s except clause: the failure notification, return False; an
\* exception the clause does not catch leaves run()
RunExcept ==
    /\ pc = "except"
    /\ IF RunCatches(exc)
       THEN /\ \E hs \in UsedOutcomes(notifier, 1) :
                 notifications' = notifications \o
                     Delivered(notifier, <<NotifyCycleFailed(exc)>>, hs)
            /\ returned' = Some(FALSE)
            /\ pc' = "done"
       ELSE /\ pc' = "raised"
            /\ UNCHANGED <<notifications, returned>>
    /\ UNCHANGED <<entry, config, item, exc, collectors_config, col_i, col_log, all_items, metrics,
                   notifier, output_files, phases>>
    /\ UNCHANGED <<client_vars, rank_vars, novelty_vars, analyze_vars, synth_vars>>

(***************************************************************************)
(* Specifications                                                          *)
(***************************************************************************)
\* The largest number of items rank_all is given
MaxItems == 3

\* The largest number of items analyze_batch is given
MaxAnalyzeItems == 2

\* The largest number of (item, analysis) pairs synthesize_* is given
MaxSynthItems == 11

RankIdle ==
    /\ ranker = SignalRankerInit(Some(RankerDefaultBatchSize),
                                 Some(RankerDefaultSignalThreshold), None, DefaultThresholds)
    /\ r_in = <<>>
    /\ r_i = 0
    /\ r_log = <<>>
    /\ r_sleeps = <<>>
    /\ all_ranked = <<>>
    /\ ranked = <<>>
    /\ filtered_by_signal = <<>>

\* Items as the ranker may be given them
RankItemKinds ==
    {NewItem("github_signals", TRUE, <<>>, <<>>), NewItem("github_emerging", FALSE, <<>>, <<>>),
     NewItem("blogs", TRUE, <<>>, <<>>), NewItem("blogs", FALSE, <<>>, <<>>)}

\* n items 1..n of the given kinds, item k titled k
Heaps(n, kinds) ==
    {[k \in 1..n |-> [f[k] EXCEPT !.title = Title(k)]] : f \in [1..n -> kinds]}

Ids(n) == [k \in 1..n |-> k]

AnalyzeIdle ==
    /\ analyzer = AnalyzerInit(TRUE, None, DefaultThresholds)
    /\ a_in = <<>>
    /\ a_i = 0
    /\ a_log = <<>>
    /\ a_sleeps = <<>>
    /\ results = <<>>
    /\ analysis_store = <<>>

\* The constructor arguments a SignalRanker is built with
RankerArgs ==
    {[batch_size |-> Some(RankerDefaultBatchSize),
      signal_threshold |-> Some(RankerDefaultSignalThreshold), batch_delay |-> None],
     [batch_size |-> Some(2), signal_threshold |-> Some(7), batch_delay |-> Some(0)],
     [batch_size |-> Some(2), signal_threshold |-> Some(4), batch_delay |-> None]}

SynthIdle ==
    /\ synthesizer = [store_results |-> TRUE]
    /\ mode = "daily"
    /\ s_in = <<>>
    /\ s_log = <<>>
    /\ synthesis = None
    /\ synthesis_store = <<>>

NoveltyIdle ==
    /\ detector = NoveltyDetectorInit(DefaultNoveltyThreshold, DefaultThresholds)
    /\ n_in = <<>>
    /\ min_novelty = None
    /\ n_i = 0
    /\ n_log = <<>>
    /\ novel_items = <<>>

\* The configurations of the collectors: every configured collector enabled
\* (the defaults), or only the ones named
AllEnabled == [name \in ConfiguredCollectors |-> [enabled |-> TRUE]]

OnlyEnabled(names) == [name \in ConfiguredCollectors |-> [enabled |-> name \in names]]

RunIdle ==
    /\ collectors_config = AllEnabled
    /\ col_i = 0
    /\ col_log = <<>>
    /\ all_items = <<>>
    /\ metrics = NewMetrics
    /\ notifier = NotifierInit(None, NtfyEnabledDefault)
    /\ notifications = <<>>
    /\ output_files = <<>>
    /\ phases = <<>>
    /\ returned = None

\* ---- ClaudeClient.complete on its own ----
InitClient ==
    /\ ClientIdle
    /\ entry = "client"
    /\ pc = "done"
    /\ config = DefaultThresholds
    /\ item = <<>>
    /\ exc = "none"
    /\ RankIdle
    /\ AnalyzeIdle
    /\ SynthIdle
    /\ NoveltyIdle
    /\ RunIdle

NextClient == Complete \/ ExecuteAttempt \/ Backoff

SpecClient == InitClient /\ [][NextClient]_vars

\* ---- ClaudeClient.complete and complete_json on a returned content ----
\* The largest number of tokens of a content
MaxContentLen == 5

RECURSIVE Contents(_)
\* The contents of at most n tokens
Contents(n) ==
    IF n = 0 THEN {<<>>}
    ELSE Contents(n - 1)
         \cup {Append(c, tok) : c \in {x \in Contents(n - 1) : Len(x) = n - 1},
                                 tok \in ContentTokens}

InitJson ==
    /\ ExecuteIdle
    /\ c_content \in Contents(MaxContentLen)
    /\ \/ entry = "complete" /\ c_expect_json \in BOOLEAN
       \/ entry = "complete_json" /\ c_expect_json = TRUE
    /\ c_response = None
    /\ c_json = [status |-> "none"]
    /\ pc = "complete"
    /\ config = DefaultThresholds
    /\ item = <<>>
    /\ exc = "none"
    /\ RankIdle
    /\ AnalyzeIdle
    /\ SynthIdle
    /\ NoveltyIdle
    /\ RunIdle

NextJson == CompleteReturn \/ CompleteJson

SpecJson == InitJson /\ [][NextJson]_vars

\* ---- SignalRanker.rank_all followed by apply_scores ----
InitRank ==
    /\ ClientIdle
    /\ entry = "rank_all"
    /\ pc = "rank_all"
    /\ config = DefaultThresholds
    /\ exc = "none"
    /\ \E n \in 0..MaxItems :
         /\ item \in Heaps(n, RankItemKinds)
         /\ r_in = Ids(n)
    /\ \E a \in RankerArgs :
         ranker = SignalRankerInit(a.batch_size, a.signal_threshold, a.batch_delay, config)
    /\ r_i = 0
    /\ r_log = <<>>
    /\ r_sleeps = <<>>
    /\ all_ranked = <<>>
    /\ ranked = <<>>
    /\ filtered_by_signal = <<>>
    /\ AnalyzeIdle
    /\ SynthIdle
    /\ NoveltyIdle
    /\ RunIdle

NextRank == RankBatchStep \/ RankAllReturn \/ ApplyScores

SpecRank == InitRank /\ [][NextRank]_vars

\* ---- Analyzer.analyze_batch ----
\* Items as the analyzer may be given them: no content, one sentence and a
\* rest, no full stop
AnalyzeItemKinds ==
    {NewItem("docs", FALSE, <<>>, <<>>),
     NewItem("blogs", FALSE, <<>>, <<"A", ".", "B">>),
     NewItem("reddit", FALSE, <<>>, <<"C">>)}

\* The constructor arguments an Analyzer is built with
AnalyzerArgs ==
    {[store_results |-> TRUE, request_delay |-> None],
     [store_results |-> FALSE, request_delay |-> Some(0)]}

InitAnalyze ==
    /\ ClientIdle
    /\ entry = "analyze_batch"
    /\ pc = "analyze_batch"
    /\ config = DefaultThresholds
    /\ exc = "none"
    /\ RankIdle
    /\ \E n \in 0..MaxAnalyzeItems :
         /\ item \in Heaps(n, AnalyzeItemKinds)
         /\ a_in = Ids(n)
    /\ \E a \in AnalyzerArgs :
         analyzer = AnalyzerInit(a.store_results, a.request_delay, config)
    /\ a_i = 0
    /\ a_log = <<>>
    /\ a_sleeps = <<>>
    /\ results = <<>>
    /\ analysis_store = <<>>
    /\ SynthIdle
    /\ NoveltyIdle
    /\ RunIdle

NextAnalyze == AnalyzeStep \/ AnalyzeBatchReturn

SpecAnalyze == InitAnalyze /\ [][NextAnalyze]_vars

\* ---- Synthesizer.synthesize_daily / _weekly / _monthly ----
SynthItemKinds == {NewItem("docs", FALSE, <<>>, <<"A", ".", "B">>)}

\* The analyses of the pairs: all items analysed (by the fallback), none
\* analysed, or the first analysis carrying a numeric summary from the model
AnalysisPatterns == {"all", "none", "numeric_summary"}

PairsOf(n, pattern) ==
    [k \in 1..n |->
        [item |-> k,
         result |->
            CASE pattern = "none" -> None
              [] pattern = "numeric_summary" /\ k = 1 ->
                   Some([FallbackAnalysis(k) EXCEPT !.summary = JInt(5)])
              [] OTHER -> Some(FallbackAnalysis(k))]]

InitSynth ==
    /\ ClientIdle
    /\ entry = "synthesize"
    /\ pc = "synthesize"
    /\ config = DefaultThresholds
    /\ exc = "none"
    /\ RankIdle
    /\ AnalyzeIdle
    /\ \E n \in 0..MaxSynthItems :
         /\ item \in Heaps(n, SynthItemKinds)
         /\ \E pattern \in AnalysisPatterns : s_in = PairsOf(n, pattern)
    /\ synthesizer \in [store_results : BOOLEAN]
    /\ mode \in {"daily", "weekly", "monthly"}
    /\ s_log = <<>>
    /\ synthesis = None
    /\ synthesis_store = <<>>
    /\ NoveltyIdle
    /\ RunIdle

NextSynth == SynthesizeStep

SpecSynth == InitSynth /\ [][NextSynth]_vars

\* ---- AIArchitect.run ----
\* ---- the two components that score from model output, each on its own ----
InitScores == InitRank \/ InitSynth

NextScores == NextRank \/ NextSynth

SpecScores == InitScores /\ [][NextScores]_vars

\* ---- the two components that persist their results, each on its own ----
InitStores == InitAnalyze \/ InitSynth

NextStores == NextAnalyze \/ NextSynth

SpecStores == InitStores /\ [][NextStores]_vars

\* ---- AIArchitect._collect on its own ----
\* The configurations of the collectors _collect is run with
CollectConfigs ==
    {OnlyEnabled({}), OnlyEnabled({"docs", "blogs"}),
     OnlyEnabled({"github_signals", "github_emerging", "github_repos", "stackoverflow"})}

InitCollect ==
    /\ ClientIdle
    /\ entry = "collect"
    /\ pc = "collect"
    /\ config = DefaultThresholds
    /\ item = <<>>
    /\ exc = "none"
    /\ RankIdle
    /\ NoveltyIdle
    /\ AnalyzeIdle
    /\ SynthIdle
    /\ collectors_config \in CollectConfigs
    /\ col_i = 0
    /\ col_log = <<>>
    /\ all_items = <<>>
    /\ metrics = NewMetrics
    /\ notifier = NotifierInit(None, NtfyEnabledDefault)
    /\ notifications = <<>>
    /\ output_files = <<>>
    /\ phases = <<>>
    /\ returned = None

NextCollect == CollectStep \/ CollectReturn

SpecCollect == InitCollect /\ [][NextCollect]_vars

\* ---- NoveltyDetector.filter_novel on its own ----
\* The largest number of items filter_novel is given
MaxNovelItems == 2

NoveltyItemKinds == {NewItem("blogs", FALSE, <<>>, <<>>)}

\* The novelty_threshold a NoveltyDetector is built with (0.0 falls back on the
\* configuration's 0.3), and the min_novelty filter_novel is called with
NoveltyThresholdArgs == {0, DefaultNoveltyThreshold, 140, 200}

MinNoveltyArgs == {None, Some(0), Some(20), Some(180)}

InitNovelty ==
    /\ ClientIdle
    /\ entry = "filter_novel"
    /\ pc = "filter_novel"
    /\ config = DefaultThresholds
    /\ exc = "none"
    /\ RankIdle
    /\ AnalyzeIdle
    /\ SynthIdle
    /\ RunIdle
    /\ \E n \in 0..MaxNovelItems :
         /\ item \in Heaps(n, NoveltyItemKinds)
         /\ n_in = Ids(n)
    /\ \E a \in NoveltyThresholdArgs : detector = NoveltyDetectorInit(a, config)
    /\ min_novelty \in MinNoveltyArgs
    /\ n_i = 0
    /\ n_log = <<>>
    /\ novel_items = <<>>

NextNovelty == FilterNovelStep \/ FilterNovelReturn

SpecNovelty == InitNovelty /\ [][NextNovelty]_vars

\* ---- the components as AIArchitect.__init__ constructs them ----
\* SignalRanker(): the parameters take the defaults of the signature
SignalRankerNoArgs(thresholds) ==
    SignalRankerInit(Some(RankerDefaultBatchSize), Some(RankerDefaultSignalThreshold),
                     None, thresholds)

\* NoveltyDetector(): novelty_threshold takes the default of the signature
NoveltyDetectorNoArgs(thresholds) == NoveltyDetectorInit(DefaultNoveltyThreshold, thresholds)

\* The thresholds a configuration file may set: the defaults, or
\* signal_score_min 7, batch_size 2 and novelty_score_min 0.7
ConfiguredThresholds ==
    {DefaultThresholds,
     [DefaultThresholds EXCEPT !.signal_score_min = 7, !.batch_size = 2,
                               !.novelty_score_min = 140]}

InitNoArgs ==
    /\ ClientIdle
    /\ config \in ConfiguredThresholds
    /\ exc = "none"
    /\ AnalyzeIdle
    /\ SynthIdle
    /\ RunIdle
    /\ ranker = SignalRankerNoArgs(config)
    /\ detector = NoveltyDetectorNoArgs(config)
    /\ min_novelty = None
    /\ r_i = 0
    /\ r_log = <<>>
    /\ r_sleeps = <<>>
    /\ all_ranked = <<>>
    /\ ranked = <<>>
    /\ filtered_by_signal = <<>>
    /\ n_i = 0
    /\ n_log = <<>>
    /\ novel_items = <<>>
    /\ \/ /\ entry = "rank_all"
          /\ pc = "rank_all"
          /\ \E n \in 0..MaxItems :
               /\ item \in Heaps(n, RankItemKinds)
               /\ r_in = Ids(n)
          /\ n_in = <<>>
       \/ /\ entry = "filter_novel"
          /\ pc = "filter_novel"
          /\ \E n \in 0..MaxNovelItems :
               /\ item \in Heaps(n, NoveltyItemKinds)
               /\ n_in = Ids(n)
          /\ r_in = <<>>

NextNoArgs == NextRank \/ NextNovelty

SpecNoArgs == InitNoArgs /\ [][NextNoArgs]_vars

\* The configuration a run is started with: the configured collectors are
\* disabled; reddit and hackernews, which have no configuration, always run
RunCollectorConfigs == {OnlyEnabled({})}

Init ==
    /\ ClientIdle
    /\ entry = "run"
    /\ pc = "start"
    /\ config = DefaultThresholds
    /\ item = <<>>
    /\ exc = "none"
    /\ RankIdle
    /\ NoveltyIdle
    /\ AnalyzeIdle
    /\ synthesizer = [store_results |-> TRUE]
    /\ mode \in {"daily", "weekly", "monthly"}
    /\ s_in = <<>>
    /\ s_log = <<>>
    /\ synthesis = None
    /\ synthesis_store = <<>>
    /\ collectors_config \in RunCollectorConfigs
    /\ col_i = 0
    /\ col_log = <<>>
    /\ all_items = <<>>
    /\ metrics = NewMetrics
    /\ notifier \in {NotifierInit(None, e) : e \in BOOLEAN}
    /\ notifications = <<>>
    /\ output_files = <<>>
    /\ phases = <<>>
    /\ returned = None

Next ==
    \/ Run
    \/ CollectStep
    \/ CollectReturn
    \/ RankBatchStep
    \/ RankAllReturn
    \/ ApplyScores
    \/ ProcessSignalFiltered
    \/ FilterNovelStep
    \/ FilterNovelReturn
    \/ ProcessReturn
    \/ AnalyzeStep
    \/ AnalyzeBatchReturn
    \/ AnalyzeReturn
    \/ SynthesizeStep
    \/ GenerateOutput
    \/ NotifyComplete
    \/ SendEmailReport
    \/ RunExcept

Spec == Init /\ [][Next]_vars

(***************************************************************************)
(* Properties of ClaudeClient.complete (checked under SpecClient)          *)
(***************************************************************************)
\* A backend outcome that _execute turns into the "Rate limited" API error.
IsRetryableOutcome(o) == o.kind = "APIError" /\ IsRateLimited(Take(o.text, ErrorMsgLen))

\* A backend error without a rate-limit/overload signature.
IsNonRetryableOutcome(o) == o.kind = "APIError" /\ ~IsRateLimited(Take(o.text, ErrorMsgLen))

ClientFinished == c_pc \in {"returned", "raised"}

\* C7: one complete() call invokes the backend at most 3 times; a call that
\* ends on a retryable (rate-limit/overload) failure has made all 3 attempts
\* and raises that last error unchanged; a call that returns has had exactly
\* one successful attempt, the last one, and returns its content.
C7_RetryAtMostThree ==
    /\ c_calls <= 3
    /\ c_calls = Len(c_history)
    /\ (ClientFinished /\ c_history # <<>> /\ IsRetryableOutcome(Last(c_history)))
         => /\ c_calls = 3
            /\ c_pc = "raised"
            /\ c_result = ExecuteBody(Last(c_history))
    /\ c_pc = "returned"
         => /\ Last(c_history).kind = "response"
            /\ c_result.content = ExtractContent(Last(c_history).blocks)
            /\ \A i \in 1..(Len(c_history) - 1) : c_history[i].kind # "response"
    /\ \A i \in 1..Len(c_history) :
         c_history[i].kind = "response" => (i = Len(c_history) /\ c_pc = "returned")

\* C7 witness: three retryable failures in a row, the last one re-raised.
C7_Witness ==
    /\ c_pc = "raised"
    /\ c_calls = 3
    /\ \A i \in 1..3 : IsRetryableOutcome(c_history[i])
    /\ c_result.type = "ClaudeAPIError"

\* C8: a backend error without a rate-limit/overload signature ends the call
\* at once: it is the only backend invocation and its API error is raised.
C8_NonRetryableRaisedAtOnce ==
    \A i \in 1..Len(c_history) :
        IsNonRetryableOutcome(c_history[i])
          => /\ i = 1
             /\ c_calls = 1
             /\ c_pc = "raised"
             /\ c_result = ExecuteBody(c_history[i])

\* C9: a backend timeout is never retried: the invocation that timed out is
\* the last one, complete() raises ClaudeTimeoutError (not ClaudeAPIError),
\* and a call whose first invocation times out has invoked the backend once.
C9_TimeoutNotRetried ==
    \A i \in 1..Len(c_history) :
        c_history[i].kind = "APITimeoutError"
          => /\ i = Len(c_history)
             /\ c_calls = i
             /\ c_pc = "raised"
             /\ c_result.type = "ClaudeTimeoutError"
             /\ c_result.type # "ClaudeAPIError"
             /\ (c_history[1].kind = "APITimeoutError" => c_calls = 1)

\* C9 witness: the first backend invocation timed out.
C9_Witness ==
    /\ c_history = <<[kind |-> "APITimeoutError"]>>
    /\ c_pc = "raised"
    /\ c_result.type = "ClaudeTimeoutError"

(***************************************************************************)
(* Properties of SignalRanker (checked under SpecRank)                     *)
(***************************************************************************)
\* The client behaviours the ranker is specified for: a client error, or a
\* response whatever its JSON.
IsClientError(beh) == beh.kind = "raise" /\ beh.type \in ClaudeClientErrors

IsNoJson(beh) == beh.kind = "response" /\ ~Truthy(beh.json_data)

\* The RankedItems all_ranked holds for item id
RankedOf(id) == {k \in 1..Len(all_ranked) : all_ranked[k].item = id}

\* C6: rank_batch never lets an exception out for a client error or for a
\* response of any JSON shape, and on a client error or absent/empty JSON
\* every item of the batch has the heuristic fallback ranking.
C6_RankBatchNeverRaises ==
    \A k \in 1..Len(r_log) :
        LET beh == r_log[k].beh
            batch == r_log[k].batch
        IN
        (IsClientError(beh) \/ beh.kind = "response")
          => /\ ~(k = Len(r_log) /\ pc = "raised")
             /\ (IsClientError(beh) \/ IsNoJson(beh))
                  => \A j \in 1..Len(batch) :
                        \E n \in RankedOf(batch[j]) :
                            all_ranked[n] = FallbackRank(batch)[j]

SynthKind(m) ==
    CASE m = "weekly" -> "WeeklySynthesis"
      [] m = "monthly" -> "MonthlySynthesis"
      [] OTHER -> "DailySynthesis"

\* The cases the fallback is promised for: the client raised (any exception),
\* the response carried no JSON, or the JSON does not parse into the shape
SynthShouldFallBack(beh) ==
    \/ beh.kind = "raise"
    \/ IsNoJson(beh)
    \/ ParseSynthesis(SynthMethod(mode), beh.json_data).status = "raised"

\* The prompt could be built from the pairs handed in
SynthPromptBuilt ==
    FormatItemsForPrompt(s_in, PromptLimit(SynthMethod(mode))).status = "returned"

\* C5: synthesize_daily/_weekly/_monthly never raise and return a non-null
\* synthesis of the mode's type; a client exception of any kind, an absent
\* JSON payload or an unparseable JSON payload gives the mode's fallback.
C5_SynthesizeNeverRaises ==
    (entry = "synthesize" /\ SynthPromptBuilt)
      => /\ pc # "raised"
         /\ pc = "done"
              => /\ synthesis # None
                 /\ synthesis[1].kind = SynthKind(mode)
                 /\ SynthShouldFallBack(s_log[1].beh)
                      => synthesis[1] = FallbackSynthesis(SynthMethod(mode), s_in)

(***************************************************************************)
(* Properties of AIArchitect.run                                           *)
(***************************************************************************)
\* The notifications of one kind handed to the notifier so far
CountKind(kind) ==
    Cardinality({k \in 1..Len(notifications) : notifications[k].msg.kind = kind})

\* C1: run() never lets an exception out: when a phase raised, run() hands the
\* cycle-failed notification to the notifier exactly once and returns False;
\* before the handler has run nothing is returned and nothing is notified.
C1_RunNeverPropagates ==
    entry = "run"
      => /\ pc # "raised"
         /\ (pc = "done" /\ exc # "none")
              => /\ returned = Some(FALSE)
                 /\ CountKind("cycle_failed") = 1
                 /\ Last(notifications).msg = NotifyCycleFailed(exc)
         /\ (pc = "except") => (returned = None /\ CountKind("cycle_failed") = 0)
         /\ (exc = "none") => CountKind("cycle_failed") = 0

\* A run in which the output phase raised after the report was written
C1_Witness ==
    /\ entry = "run"
    /\ pc = "done"
    /\ exc = "OSError"
    /\ "output" \in {phases[k] : k \in 1..Len(phases)}
    /\ returned = Some(FALSE)
    /\ CountKind("cycle_failed") = 1

\* The model client only raised client errors or answered with well-formed JSON
OnlyClientFailures ==
    /\ \A k \in 1..Len(r_log) :
         IsClientError(r_log[k].beh) \/ r_log[k].beh = ClientReturns(RankJsonValid)
    /\ \A k \in 1..Len(a_log) :
         IsClientError(a_log[k].beh) \/ a_log[k].beh = ClientReturns(AnalysisJsonFull)
    /\ \A k \in 1..Len(s_log) :
         IsClientError(s_log[k].beh) \/ s_log[k].beh = ClientReturns(SynthJsonFull)

\* The files were written
OutputWritten == \E k \in 1..Len(output_files) : output_files[k] = "index"

AllPhases ==
    <<"collection", "processing", "analysis", "synthesis", "output", "notification",
      "email">>

\* C2: a run with an item left after ranking and novelty filtering, whose only
\* failures are client errors and vector-store errors, completes every phase
\* and returns True.
C2_DegradedRunSucceeds ==
    (/\ entry = "run"
     /\ pc = "done"
     /\ novel_items # <<>>
     /\ OnlyClientFailures
     /\ OutputWritten)
      => /\ returned = Some(TRUE)
         /\ phases = AllPhases

\* _process returned an empty list: ranking finished, the novelty filter saw
\* every item the signal filter kept, and nothing is left
ProcessingLeftNothing ==
    /\ all_items # <<>>
    /\ r_in = all_items
    /\ Len(all_ranked) = Len(r_in)
    /\ n_in = filtered_by_signal
    /\ n_i = Len(n_in)
    /\ novel_items = <<>>

\* C3: when collection gives no items, or ranking and novelty filtering leave
\* none, run() returns True and analysis, synthesis and output never start.
C3_EmptyRunSucceeds ==
    (entry = "run" /\ pc = "done" /\ (all_items = <<>> \/ ProcessingLeftNothing))
      => /\ returned = Some(TRUE)
         /\ \A k \in 1..Len(phases) : phases[k] \notin {"analysis", "synthesis", "output"}
         /\ a_log = <<>>
         /\ s_log = <<>>
         /\ synthesis = None
         /\ output_files = <<>>

\* A run whose items passed the signal filter and were all found not novel
C3_Witness ==
    /\ entry = "run"
    /\ pc = "done"
    /\ ProcessingLeftNothing
    /\ filtered_by_signal # <<>>
    /\ returned = Some(TRUE)

\* s is t with some elements left out: same order, nothing added
RECURSIVE IsSubsequence(_, _)
IsSubsequence(s, t) ==
    IF s = <<>> THEN TRUE
    ELSE IF t = <<>> THEN FALSE
    ELSE IF Head(s) = Head(t) THEN IsSubsequence(Tail(s), Tail(t))
    ELSE IsSubsequence(s, Tail(t))

NoDuplicates(s) == \A i, j \in 1..Len(s) : s[i] = s[j] => i = j

Elems(s) == {s[k] : k \in 1..Len(s)}

\* C10: in a run the list leaving the signal filter is an order-preserving
\* subsequence of the list that entered it, likewise for the novelty filter;
\* nothing is added, duplicated or reordered, and an item a stage discarded
\* is in no later stage.
C10_FiltersPreserveOrder ==
    entry = "run"
      => /\ NoDuplicates(all_items)
         /\ IsSubsequence(ItemsOf(ranked), r_in)
         /\ IsSubsequence(filtered_by_signal, r_in)
         /\ NoDuplicates(filtered_by_signal)
         /\ IsSubsequence(n_in, filtered_by_signal)
         /\ IsSubsequence(novel_items, n_in)
         /\ NoDuplicates(novel_items)
         /\ IsSubsequence(a_in, novel_items)
         /\ IsSubsequence([k \in 1..Len(results) |-> results[k].item], a_in)
         /\ IsSubsequence([k \in 1..Len(s_in) |-> s_in[k].item], a_in)
         /\ pc \notin {"start", "collect", "rank_all", "apply_scores"}
              => \A id \in Elems(r_in) \ Elems(filtered_by_signal) :
                   id \notin Elems(n_in) \cup Elems(novel_items) \cup Elems(a_in)
         /\ \A k \in 1..Len(n_log) :
              ~n_log[k].is_novel
                => n_log[k].item \notin Elems(novel_items) \cup Elems(a_in)
                     \cup {results[j].item : j \in 1..Len(results)}

\* A run in which both items passed the signal filter in order and the
\* novelty filter dropped the first and kept the second
C10_Witness ==
    /\ entry = "run"
    /\ Len(r_in) = 2
    /\ filtered_by_signal = r_in
    /\ n_i = 2
    /\ novel_items = <<r_in[2]>>
    /\ a_in = novel_items
    /\ Len(results) = 1

(***************************************************************************)
(* Properties of SignalRanker                                              *)
(***************************************************************************)
\* The positions of rank_all's input whose assigned score reaches the threshold
PassingPositions ==
    {k \in 1..Len(r_in) : all_ranked[k].signal_score >= ranker.signal_threshold}

\* C11: rank_all followed by apply_scores returns exactly the input items whose
\* assigned signal_score is at least the threshold, in input order, each with
\* signal_score, impact and maturity written on the item; the same threshold
\* filter applied to that output removes nothing.
C11_RankAllYieldsPassing ==
    (entry = "rank_all" /\ pc = "done")
      => /\ Len(all_ranked) = Len(r_in)
         /\ \A k \in 1..Len(r_in) : all_ranked[k].item = r_in[k]
         /\ IsSubsequence(filtered_by_signal, r_in)
         /\ Elems(filtered_by_signal) = {r_in[k] : k \in PassingPositions}
         /\ Len(filtered_by_signal) = Cardinality(PassingPositions)
         /\ \A k \in PassingPositions :
              /\ item[r_in[k]].signal_score = Some(all_ranked[k].signal_score)
              /\ item[r_in[k]].impact = Some(all_ranked[k].impact)
              /\ item[r_in[k]].maturity = Some(all_ranked[k].maturity)
         /\ \A j \in 1..Len(ranked) : ranked[j].signal_score >= ranker.signal_threshold
         /\ \A j \in 1..Len(filtered_by_signal) :
              item[filtered_by_signal[j]].signal_score[1] >= ranker.signal_threshold

\* A finished call that kept an item scored exactly at the threshold and
\* dropped another
C11_Witness ==
    /\ entry = "rank_all"
    /\ pc = "done"
    /\ Len(filtered_by_signal) < Len(r_in)
    /\ \E j \in 1..Len(filtered_by_signal) :
         item[filtered_by_signal[j]].signal_score = Some(ranker.signal_threshold)

(***************************************************************************)
(* Properties of NoveltyDetector                                           *)
(***************************************************************************)
\* The lookup of an item failed: the store raised or its answer was malformed
LookupFailed(lookup) == lookup.kind \in {"raise", "malformed"}

\* C12: an item whose vector-store lookup failed is kept by filter_novel with
\* the default novelty 0.5, whatever threshold in [0,1] the detector has.
C12_FailedLookupKeepsItem ==
    (entry = "filter_novel" /\ detector.novelty_threshold \in 0..FullNovelty)
      => \A k \in 1..Len(n_log) :
            LookupFailed(n_log[k].lookup)
              => /\ n_log[k].score = FailedCheckNovelty
                 /\ n_log[k].item \in Elems(novel_items)
                 /\ item[n_log[k].item].novelty_score = Some(FailedCheckNovelty)

\* The threshold filter_novel(items, min_novelty) is documented to filter by
RequestedThreshold ==
    IF min_novelty = None THEN detector.novelty_threshold ELSE min_novelty[1]

\* C13: filter_novel(items, min_novelty=m) returns exactly the items whose
\* computed novelty is >= m (the detector's threshold when m is None), each
\* with novelty_score set to its computed novelty.
C13_FilterNovelUsesMinNovelty ==
    (entry = "filter_novel" /\ pc = "done")
      => /\ Elems(novel_items)
              = {n_log[k].item : k \in {j \in 1..Len(n_log) :
                                          n_log[j].score >= RequestedThreshold}}
         /\ \A k \in 1..Len(n_log) :
              n_log[k].item \in Elems(novel_items)
                => item[n_log[k].item].novelty_score = Some(n_log[k].score)

\* The items the novelty detector has evaluated so far
Evaluated == {n_log[k].item : k \in 1..Len(n_log)}

\* C14: at every point of a run, an item has novelty_score set if and only if
\* the novelty detector has evaluated it.
C14_NoveltyScoreIffEvaluated ==
    entry = "run"
      => \A id \in DOMAIN item : (item[id].novelty_score # None) <=> (id \in Evaluated)

IsNumber(j) == j.t \in {"int", "float"}

WholePart(j) ==
    IF j.t = "int" THEN j.i
    ELSE IF j.tenths >= 0 THEN j.tenths \div 10 ELSE -((-j.tenths) \div 10)

\* The entries of a model answer that is a plain list of objects, each with
\* its own integer index
PlainRankings(beh) ==
    IF beh.kind = "response" /\ beh.json_data.t = "list"
         /\ \A q \in 1..Len(beh.json_data.xs) :
               /\ beh.json_data.xs[q].t = "dict"
               /\ "index" \in DOMAIN beh.json_data.xs[q].d
               /\ beh.json_data.xs[q].d.index.t = "int"
         /\ \A q1, q2 \in 1..Len(beh.json_data.xs) :
               beh.json_data.xs[q1].d.index = beh.json_data.xs[q2].d.index => q1 = q2
    THEN beh.json_data.xs ELSE <<>>

ScoreUsable(e) == "signal_score" \in DOMAIN e => IsNumber(e.signal_score)

\* C17: every RankedItem has impact and maturity inside the fixed sets; an
\* impact of the model outside the set becomes "ecosystem", a maturity
\* outside the set "growing", and the item is ranked all the same.
C17_CategoriesValidated ==
    entry = "rank_all"
      => /\ pc # "raised" =>
              \A k \in 1..Len(r_log) : \A p \in 1..Len(r_log[k].batch) :
                 \E j \in 1..Len(all_ranked) : all_ranked[j].item = r_log[k].batch[p]
         /\ \A j \in 1..Len(all_ranked) :
              /\ all_ranked[j].impact
                   \in {"tooling", "architecture", "research", "production", "ecosystem"}
              /\ all_ranked[j].maturity
                   \in {"experimental", "early", "growing", "stable", "legacy"}
         /\ \A k \in 1..Len(r_log) :
              LET xs == PlainRankings(r_log[k].beh)
                  batch == r_log[k].batch
              IN
              /\ (xs # <<>> /\ \A q \in 1..Len(xs) : ScoreUsable(xs[q].d))
                   => \A p \in 1..Len(batch) :
                        \E j \in 1..Len(all_ranked) : all_ranked[j].item = batch[p]
              /\ \A q \in 1..Len(xs) :
                   (xs[q].d.index.i + 1 \in 1..Len(batch))
                     => \A j \in 1..Len(all_ranked) :
                          all_ranked[j].item = batch[xs[q].d.index.i + 1]
                            => /\ ("impact" \in DOMAIN xs[q].d
                                     /\ xs[q].d.impact
                                          \notin {JStr("tooling"), JStr("architecture"),
                                                  JStr("research"), JStr("production"),
                                                  JStr("ecosystem")})
                                    => all_ranked[j].impact = "ecosystem"
                               /\ ("maturity" \in DOMAIN xs[q].d
                                     /\ xs[q].d.maturity
                                          \notin {JStr("experimental"), JStr("early"),
                                                  JStr("growing"), JStr("stable"),
                                                  JStr("legacy")})
                                    => all_ranked[j].maturity = "growing"
                               /\ ("impact" \in DOMAIN xs[q].d
                                     /\ xs[q].d.impact = JStr("research"))
                                    => all_ranked[j].impact = "research"

\* C17 witness: the model sent impact "bogus" and a number as maturity for
\* the first item of a batch, and the item is ranked "ecosystem"/"growing".
C17_Witness ==
    /\ entry = "rank_all"
    /\ \E k \in 1..Len(r_log) :
         /\ r_log[k].beh = ClientReturns(RankJsonOutOfRange)
         /\ \E j \in 1..Len(all_ranked) :
              /\ all_ranked[j].item = r_log[k].batch[1]
              /\ all_ranked[j].impact = "ecosystem"
              /\ all_ranked[j].maturity = "growing"

(***************************************************************************)
(* Properties of the ranker's heuristic fallback                           *)
(***************************************************************************)
\* The score the heuristic is documented to give
DocumentedFallbackScore(it) ==
    IF it.source_type = "github_emerging" \/ it.has_priority_label THEN 7
    ELSE IF it.source_type \in {"docs", "github_signals"} THEN 6
    ELSE 5

\* C18: the fallback ranking of an item has signal_score 7 for github_emerging
\* or a priority label, otherwise 6 for docs and github_signals, otherwise 5,
\* with impact "ecosystem", maturity "growing" and a reasoning marked fallback.
C18_FallbackHeuristic ==
    entry = "rank_all"
      => \A k \in 1..Len(r_log) :
            (IsClientError(r_log[k].beh) \/ IsNoJson(r_log[k].beh))
              => \A p \in 1..Len(r_log[k].batch) :
                    \E j \in RankedOf(r_log[k].batch[p]) :
                        /\ all_ranked[j].signal_score
                             = DocumentedFallbackScore(item[r_log[k].batch[p]])
                        /\ all_ranked[j].impact = "ecosystem"
                        /\ all_ranked[j].maturity = "growing"
                        /\ all_ranked[j].reasoning = FallbackReasoning

(***************************************************************************)
(* Properties of the synthesizer's fallback                                *)
(***************************************************************************)
\* The titles a synthesis lists: daily highlights, the titles of the weekly
\* top stories, the titles of the monthly major developments
ListedTitles(s) ==
    CASE s.kind = "WeeklySynthesis" ->
           [k \in 1..Len(s.top_stories.xs) |-> s.top_stories.xs[k].d.title]
      [] s.kind = "MonthlySynthesis" ->
           [k \in 1..Len(s.major_developments.xs) |-> s.major_developments.xs[k].d.title]
      [] OTHER -> s.highlights.xs

\* How many titles the fallback of a mode lists at most
DocumentedTitleCount(m) ==
    CASE m = "weekly" -> 5
      [] m = "monthly" -> 10
      [] OTHER -> 3

NonEmptyText(j) ==
    CASE j.t = "fmt" -> j.template # ""
      [] j.t = "str" -> j.s # ""
      [] OTHER -> FALSE

IsJsonText(toks) == Len(Strip(toks)) = 1 /\ Strip(toks)[1] \in {"obj", "empty"}

HeldJson(toks) ==
    (IF IsJsonText(toks) THEN {TokenValue(Strip(toks)[1])} ELSE {})
    \cup {TokenValue(Strip(SubSeq(toks, p[1] + 1, p[2] - 1))[1]) :
            p \in {q \in (1..Len(toks)) \X (1..Len(toks)) :
                     /\ q[1] < q[2]
                     /\ IsFence(toks[q[1]])
                     /\ toks[q[2]] = "fence"
                     /\ IsJsonText(SubSeq(toks, q[1] + 1, q[2] - 1))}}

\* C20: complete(expect_json=True) never raises because of the content and
\* sets json_data to the parsed value whenever the content holds valid JSON,
\* leaving it null otherwise; complete_json returns that value and raises the
\* parse error only when the content holds no JSON.
C20_JsonExtracted ==
    /\ (entry = "complete" /\ pc # "complete")
         => /\ pc = "done"
            /\ c_response # None
            /\ c_expect_json
                 => /\ HeldJson(c_content) # {} => c_response[1].json_data \in HeldJson(c_content)
                    /\ HeldJson(c_content) = {} => c_response[1].json_data = JNull
    /\ (entry = "complete_json" /\ pc # "complete")
         => /\ HeldJson(c_content) # {}
                 => /\ pc = "done"
                    /\ c_json.status = "returned"
                    /\ c_json.value \in HeldJson(c_content)
            /\ HeldJson(c_content) = {}
                 => /\ pc = "raised"
                    /\ c_json = Raised("ClaudeParseError")

(***************************************************************************)
(* Properties of analyze_batch's pairing                                   *)
(***************************************************************************)
\* The analysis of item k came from the model (it is not the fallback)
ParsedFromModel(k) ==
    /\ a_log[k].beh.kind = "response"
    /\ Truthy(a_log[k].beh.json_data)
    /\ results[k].result # Some(FallbackAnalysis(a_in[k]))

NoNeighbours(lookup) ==
    /\ lookup.kind = "results"
    /\ (lookup.distances = None \/ lookup.distances[1][1] = <<>>)

\* C22: compute_novelty is exactly 1.0 when the lookup succeeds and reports
\* no neighbour (no result, no distances, an empty distance list).
C22_NoNeighboursFullyNovel ==
    entry = "filter_novel"
      => \A k \in 1..Len(n_log) : NoNeighbours(n_log[k].lookup) => n_log[k].score = 200

\* C22 witness: both answers without neighbours were seen, and scored 1.0
C22_Witness ==
    /\ entry = "filter_novel"
    /\ Len(n_log) = 2
    /\ n_log[1].lookup = LookupNothing
    /\ n_log[2].lookup = LookupDistances(<<>>)
    /\ n_log[1].score = 200
    /\ n_log[2].score = 200

(***************************************************************************)
(* Properties of the components built without arguments                    *)
(***************************************************************************)
\* C23: a SignalRanker and a NoveltyDetector built without arguments filter
\* with the configured signal_score_min, batch_size and novelty_score_min.
C23_ConfiguredThresholdsUsed ==
    /\ entry = "rank_all"
         => /\ ranker.signal_threshold = config.signal_score_min
            /\ ranker.batch_size = config.batch_size
            /\ \A k \in 1..Len(r_log) : Len(r_log[k].batch) <= config.batch_size
            /\ pc \in {"apply_scores", "done"}
                 => Len(ranked) = Cardinality({k \in 1..Len(all_ranked) :
                                     all_ranked[k].signal_score >= config.signal_score_min})
    /\ entry = "filter_novel"
         => /\ detector.novelty_threshold = config.novelty_score_min
            /\ \A k \in 1..Len(n_log) :
                 n_log[k].is_novel <=> n_log[k].score >= config.novelty_score_min

(***************************************************************************)
(* Properties of the persistence of results                                *)
(***************************************************************************)
\* C24: when vector_store.add raises while an analysis or a synthesis is
\* persisted, the Analyzer / Synthesizer returns the parsed result it would
\* have returned had the write succeeded: no exception, no fallback.
C24_StoreFailureSwallowed ==
    /\ entry = "analyze_batch"
         => \A k \in 1..Len(a_log) :
               a_log[k].store = "raise"
                 => /\ ~(k = Len(a_log) /\ pc = "raised")
                    /\ k <= Len(results)
                    /\ results[k].result
                         = Some(ParseResult(a_in[k], a_log[k].beh.json_data).value)
                    /\ results[k].result = Analyze(analyzer, a_in[k], a_log[k].beh, "ok").result
                    /\ \A d \in 1..Len(analysis_store) : analysis_store[d].id # a_in[k]
    /\ entry = "synthesize"
         => \A k \in 1..Len(s_log) :
               s_log[k].store = "raise"
                 => /\ pc = "done"
                    /\ synthesis
                         = Some(ParseSynthesis(SynthMethod(mode), s_log[k].beh.json_data).value)
                    /\ synthesis
                         = Synthesize(synthesizer, SynthMethod(mode), s_in, s_log[k].beh, "ok").result
                    /\ synthesis_store = <<>>

\* C24 witness: the write of a fully parsed analysis failed, and the pair
\* holds the parsed analysis, not the fallback.
C24_Witness ==
    /\ entry = "analyze_batch"
    /\ Len(results) >= 1
    /\ a_log[1].store = "raise"
    /\ a_log[1].beh = ClientReturns(AnalysisJsonFull)
    /\ results[1].result # Some(FallbackAnalysis(a_in[1]))
    /\ results[1].result[1].summary = JStr("S")
    /\ analysis_store = <<>>

\* ---- C25: the collection phase isolates each collector ----
\* A collector is enabled unless its configuration says otherwise
IsEnabled(cfg, name) == name \notin DOMAIN cfg \/ cfg[name].enabled

\* The enabled collectors among the first k of the fixed order
EnabledAmong(k) ==
    SelectSeq(SubSeq(Collectors, 1, k), LAMBDA name : IsEnabled(collectors_config, name))

\* The source of every item the logged collectors returned, in log order
RECURSIVE SourcesReturned(_)
SourcesReturned(log) ==
    IF log = <<>> THEN <<>>
    ELSE [k \in 1..Head(log).out.n |-> Head(log).name] \o SourcesReturned(Tail(log))

\* How many times the collector is listed in collectors_failed
TimesFailed(name) ==
    Cardinality({k \in 1..Len(metrics.collectors_failed) : metrics.collectors_failed[k] = name})

\* C25: after k collectors of the fixed order have been visited, the ones
\* invoked are exactly the enabled ones among them, each once and in that
\* order, whatever the earlier ones did; a collector that raised has no item
\* in the result and is listed once in collectors_failed; the items returned
\* are those of the other collectors, in collector order
C25_CollectorsIsolated ==
    /\ [i \in 1..Len(col_log) |-> col_log[i].name] = EnabledAmong(col_i)
    /\ \A i \in 1..Len(col_log) :
          col_log[i].out.kind = "raise" =>
             /\ \A k \in 1..Len(all_items) : item[all_items[k]].source_type # col_log[i].name
             /\ TimesFailed(col_log[i].name) = 1
    /\ [k \in 1..Len(all_items) |-> item[all_items[k]].source_type] = SourcesReturned(col_log)

\* A collection that has finished in which a collector raised between two
\* collectors that returned items, with a disabled collector in the list
C25_Witness ==
    /\ entry = "collect"
    /\ pc = "done"
    /\ \E name \in ConfiguredCollectors : ~collectors_config[name].enabled
    /\ \E i, j, k \in 1..Len(col_log) :
          /\ i < j /\ j < k
          /\ col_log[i].out.n > 0
          /\ col_log[j].out.kind = "raise"
          /\ col_log[k].out.n > 0

\* ---- C26: the metadata of a stored analysis ----
\* The metadata keys the report reads from a stored analysis
ReportKeys == {"title", "source", "url", "summary"}

\* C26: every document in the "analysis" collection carries title (the
\* item's title), source (the item's source_type value), url and summary (the
\* whole analysis summary) in its metadata, and signal_score exactly when the
\* item's signal_score is set
C26_EnrichedMetadata ==
    \A d \in 1..Len(analysis_store) :
       LET metadata == analysis_store[d].metadata
           stored == item[analysis_store[d].metadata.item_id]
       IN  /\ ReportKeys \subseteq DOMAIN metadata
           /\ metadata.title = stored.title
           /\ metadata.source = stored.source_type
           /\ metadata.summary = analysis_store[d].document.summary
           /\ ("signal_score" \in DOMAIN metadata) <=> (stored.signal_score # None)

\* ---- C27: completion and failure notifications exclude each other ----
\* The notifications that announce a completed cycle
CompletionKinds == {"daily_complete", "weekly_complete", "monthly_complete"}

\* The notifications of these kinds the notifier posted with success
Posted(kinds) ==
    {k \in 1..Len(notifications) : notifications[k].msg.kind \in kinds /\ notifications[k].sent}

\* C27: a run never sends both the completion notification and the
\* cycle-failed notification, and a run that sent the completion notification
\* returns True
C27_CompleteExcludesFailed ==
    (entry = "run" /\ Posted(CompletionKinds) # {})
      => /\ Posted({"cycle_failed"}) = {}
         /\ pc = "done" => returned = Some(TRUE)

\* ---- C28: the batches and the sleeps of rank_all ----
\* ceil(n / b): the least number of slices of b that cover n items
CeilDiv(n, b) == CHOOSE c \in 0..n : c * b >= n /\ (c = 0 \/ (c - 1) * b < n)

\* rank_all has returned
RankAllReturned == entry = "rank_all" /\ pc \in {"apply_scores", "done"}

\* C28: the model calls of rank_all are made on consecutive slices of
\* batch_size items, the k-th on items (k-1)*b+1 .. min(k*b, n); once rank_all
\* has returned there were ceil(n/b) of them, which cover every item once; it
\* sleeps batch_delay after a batch only when another batch follows, so
\* ceil(n/b) - 1 times when batch_delay > 0 and never when it is 0
C28_BatchesAndSleeps ==
    LET n == Len(r_in)
        b == ranker.batch_size
    IN
    entry = "rank_all" =>
      /\ CeilDiv(12, 10) = 2
      /\ \A k \in 1..Len(r_log) :
            r_log[k].batch = SubSeq(r_in, (k - 1) * b + 1, Min(k * b, n))
      /\ Len(r_log) <= CeilDiv(n, b)
      /\ \A k \in 1..Len(r_sleeps) : r_sleeps[k] = ranker.batch_delay /\ ranker.batch_delay > 0
      /\ Len(r_sleeps) <= Max(CeilDiv(n, b) - 1, 0)
      /\ RankAllReturned =>
            /\ Len(r_log) = CeilDiv(n, b)
            /\ Len(r_sleeps) = (IF ranker.batch_delay > 0 /\ n > 0 THEN CeilDiv(n, b) - 1 ELSE 0)

\* C28 witness: rank_all returned after two batches, of two items and of one,
\* with one sleep between them
C28_Witness ==
    /\ RankAllReturned
    /\ pc = "done"
    /\ Len(r_in) = 3
    /\ ranker.batch_size = 2
    /\ Len(r_log) = 2
    /\ Len(r_log[1].batch) = 2 /\ Len(r_log[2].batch) = 1
    /\ r_sleeps = <<ranker.batch_delay>>

\* ---- C29: response entries are matched to batch items by index ----
\* The k-th batch of rank_all got a JSON response and rank_batch returned
UsableResponse(k) ==
    /\ r_log[k].beh.kind = "response"
    /\ Truthy(r_log[k].beh.json_data)
    /\ (k < Len(r_log) \/ pc # "raised")

\* The entries of the response, once unwrapped
EntriesOf(beh) == IterRankings(UnwrapRankings(beh.json_data)).xs

\* The entry at position p (from 1) has index i: the index it states, or its
\* position in the response when it states none
EntryHasIndex(xs, p, i) ==
    IF "index" \in DOMAIN xs[p].d
    THEN xs[p].d.index = JInt(i) \/ xs[p].d.index = JFloat(10 * i)
    ELSE p - 1 = i

\* C29: for a batch whose response was usable, rank_batch returned one
\* RankedItem per batch item, in batch order; the one of item i (from 0) has
\* the validated values of an entry whose index is i, or signal_score 5,
\* impact "ecosystem", maturity "growing" and no reasoning when no entry has
\* index i; an entry whose index is no position of the batch changes nothing
C29_EntriesMatchedByIndex ==
    entry = "rank_all" =>
      \A k \in 1..Len(r_log) :
        UsableResponse(k) =>
          LET batch == r_log[k].batch
              xs == EntriesOf(r_log[k].beh)
              at == (k - 1) * ranker.batch_size
          IN
          /\ Len(all_ranked) >= at + Len(batch)
          /\ \A j \in 1..Len(batch) :
                LET got == all_ranked[at + j]
                    hits == {p \in 1..Len(xs) : EntryHasIndex(xs, p, j - 1)}
                IN
                /\ got.item = batch[j]
                /\ hits = {} => got = RankedItem(batch[j], 5, "ecosystem", "growing", JNull)
                /\ hits # {} => \E p \in hits : Returned(got) = ParseOneRanking(batch[j], xs[p])

\* C29 witness: a batch of two whose response has one entry, with index 1:
\* the first item has the defaults and the second the entry's score; and a
\* batch whose response has an entry with index 7, which no item takes
C29_Witness ==
    /\ entry = "rank_all"
    /\ pc = "done"
    /\ Len(r_log) = 2
    /\ r_log[1].beh = ClientReturns(RankJsonWrapped)
    /\ Len(r_log[1].batch) = 2
    /\ all_ranked[1].signal_score = 5
    /\ all_ranked[2].signal_score = 7
    /\ r_log[2].beh = ClientReturns(RankJsonNoIndex)
    /\ all_ranked[3].signal_score = 9

\* ---- C30: the metrics follow the items ----
\* The items of a list that are not in the list a filter returned
DroppedBy(before, after) ==
    {k \in 1..Len(before) : \A j \in 1..Len(after) : after[j] # before[k]}

\* _process has returned in this run: the analysis began, or run() returned
\* True with items collected and none left to analyse
ProcessingDone ==
    /\ entry = "run"
    /\ \/ "analysis" \in {phases[k] : k \in 1..Len(phases)}
       \/ (pc = "done" /\ returned = Some(TRUE) /\ all_items # <<>>)

\* _analyze has returned in this run
AnalysisDone == entry = "run" /\ "synthesis" \in {phases[k] : k \in 1..Len(phases)}

\* C30: once the processing phase is over, items_discarded is the number of
\* items the signal filter dropped plus the number the novelty filter
\* dropped, and items_collected = items_discarded + items_processed; once the
\* analysis phase is over, items_analyzed + analysis_errors = items_processed
C30_MetricsFollowItems ==
    /\ ProcessingDone =>
          /\ metrics.items_discarded =
                Cardinality(DroppedBy(all_items, filtered_by_signal))
                  + Cardinality(DroppedBy(filtered_by_signal, novel_items))
          /\ metrics.items_collected = metrics.items_discarded + metrics.items_processed
          /\ metrics.items_collected = Len(all_items)
          /\ metrics.items_processed = Len(novel_items)
    /\ AnalysisDone =>
          metrics.items_analyzed + metrics.analysis_errors = metrics.items_processed

\* C30 witness: a run that collected two items, dropped one and analysed the
\* other
C30_Witness ==
    /\ AnalysisDone
    /\ pc = "done"
    /\ metrics.items_collected = 2
    /\ metrics.items_discarded = 1
    /\ metrics.items_processed = 1
    /\ metrics.items_analyzed = 1


====
